---- MODULE Spec2Model ----
(***************************************************************************)
(* Verification model of the CodingChallenge repository:                   *)
(*   Problem1  - circle rasterization on a grid and its bounding circles   *)
(*   Problem2  - Pratt least-squares circle fit (FitCircle)                *)
(*                                                                         *)
(* Problem1 works on reals that, for the inputs drawn here, are rationals  *)
(* with a small denominator; they are held as integers in units of 1/Den   *)
(* and every comparison of the code is decided exactly.                    *)
(*                                                                         *)
(* Problem2 works on doubles, and what FitCircle returns depends on how    *)
(* each operation rounds: its arithmetic is IEEE-754 binary64, operation   *)
(* by operation in the order the expressions of the source evaluate.       *)
(***************************************************************************)
EXTENDS Integers, Naturals, Sequences, FiniteSets, TLC

VARIABLES
    highlighted,   \* Grid::points[k].highlighted, k = row * size + col
    theGrid,       \* Grid::size, Grid::transform, and the positions in
                   \* Grid::points as a sequence (points[k] is element k + 1)
    pc,            \* position of the caller of the Problem1 API
    call,          \* the operation last called, with its arguments
    before,        \* the flags when that operation was called
    ret,           \* what calculateBoundingCircles returned
    innerCircle,   \* the caller's innerCircle object (output parameter)
    outerCircle,   \* the caller's outerCircle object (output parameter)
    points,        \* FitCircle: the argument, pixel coordinates
    at,            \* FitCircle: the position of the running call
    fit,           \* FitCircle: the local variables of the running call
    result,        \* FitCircle: the Circle returned
    transform,     \* the CoordinateTransform object
    conv,          \* CoordinateTransform: the last call, arguments and result
    sample,        \* FitEllipse: the argument
    stage,         \* FitEllipse: the position of the running call
    ell,           \* FitEllipse: the local variables of the running call
    shape,         \* FitEllipse: the EllipseShape returned
    earlier,       \* a call of FitCircle or FitEllipse made before, with its result
    selected,      \* Problem2 Grid: the cells (i, j) with points[i][j].selected
    gridCall,      \* the operation of that Grid last called, arguments and result
    showCircle,    \* Problem2 Application::showCircle
    bestFitCircle, \* Problem2 Application::bestFitCircle
    showEllipse,   \* extracredit Application::showEllipse
    bestFitEllipse,\* extracredit Application::bestFitEllipse
    event,         \* the handler of an Application that ran last
    fitted,        \* the points an Application last had fitted, and the result
    lit,           \* Problem1 Application::grid: the indices of the highlighted points
    isDragging,          \* Problem1 Application::isDragging
    dragStartCanvas,     \* Problem1 Application::dragStartCanvas
    dragCurrentCanvas,   \* Problem1 Application::dragCurrentCanvas
    hasRasterizedCircle, \* Problem1 Application::hasRasterizedCircle
    userCircleGrid,      \* Problem1 Application::userCircleGrid
    innerBoundGrid,      \* Problem1 Application::innerBoundGrid
    outerBoundGrid,      \* Problem1 Application::outerBoundGrid
    mouse          \* the handler of the Problem1 Application that ran last

gridVars == <<highlighted, theGrid, pc, call, before, ret, innerCircle, outerCircle>>

fitVars == <<points, at, fit, result>>

transformVars == <<transform, conv>>

ellipseVars == <<sample, stage, ell, shape>>

selectVars == <<selected, gridCall>>

shownVars == <<showCircle, bestFitCircle, showEllipse, bestFitEllipse, event,
              fitted>>

dragVars == <<lit, isDragging, dragStartCanvas, dragCurrentCanvas,
              hasRasterizedCircle, userCircleGrid, innerBoundGrid, outerBoundGrid,
              mouse>>

appVars == <<selectVars, shownVars, dragVars>>

vars == <<highlighted, theGrid, pc, call, before, ret, innerCircle, outerCircle,
          points, at, fit, result, transform, conv, sample, stage, ell, shape,
          earlier, selected, gridCall, showCircle, bestFitCircle, showEllipse,
          bestFitEllipse, event, fitted, lit, isDragging, dragStartCanvas,
          dragCurrentCanvas, hasRasterizedCircle, userCircleGrid, innerBoundGrid,
          outerBoundGrid, mouse>>

----------------------------------------------------------------------------
(* Bounds of the model *)

GridN == 3          \* points per dimension of the Grid under test
Den == 2            \* coordinates and radii are multiples of 1/Den
Margin == 1         \* centres reach Margin/Den outside the grid's extent
Far == 3            \* two more centre coordinates, Far grid units outside
MaxRadius == 5      \* largest radius, in units of 1/Den

(* Program constants *)

ThresholdNum == 7071     \* Config::RASTERIZATION_THRESHOLD = 0.7071
ThresholdDen == 10000
DblMax == 2147483647     \* stands for std::numeric_limits<double>::max()

----------------------------------------------------------------------------
(* Geometry.h *)

Abs(x) == IF x < 0 THEN -x ELSE x

Min(a, b) == IF a < b THEN a ELSE b

Max(a, b) == IF a > b THEN a ELSE b

\* floor(n / d) and ceil(n / d) for d > 0
Floor(n, d) == n \div d

Ceil(n, d) == -((-n) \div d)

\* Point2D::distanceSquaredTo, in units of 1/Den^2
distanceSquaredTo(ax, ay, bx, by) == (ax - bx) * (ax - bx) + (ay - by) * (ay - by)

\* isValid accepting a zero radius
isValidZero(c) == c.radius >= 0

\* Circle::isValid
isValid(c) == c.radius > 0

\* Circle(): the default constructed circle. A circle whose radius is a
\* distance between points carries the square of its radius (radiusSq).
DefaultCircle == [cx |-> 0, cy |-> 0, radiusSq |-> 0]

(***************************************************************************)
(* distToBoundary <= threshold, where                                      *)
(*     distToCenter   = sqrt(dsq) / Den                                    *)
(*     distToBoundary = |distToCenter - r / Den|                           *)
(*     threshold      = ThresholdNum / ThresholdDen                        *)
(* With t = Den * threshold the test is |sqrt(dsq) - r| <= t, that is      *)
(*     sqrt(dsq) <= r + t   and   r - t <= sqrt(dsq).                      *)
(* Squaring (r > 0) and multiplying by ThresholdDen:                       *)
(*     ThresholdDen * (dsq - r^2) - 2 r Den ThresholdNum <= tt             *)
(*     r <= t  or  ThresholdDen * (r^2 - dsq) - 2 r Den ThresholdNum <= -tt*)
(* with tt = (Den * ThresholdNum)^2 / ThresholdDen, not an integer, while  *)
(* the left sides are integers. For the lattices drawn here no grid point    *)
(* lies within 1e-6 of the threshold, so the rounding of the double        *)
(* computation decides nothing.                                            *)
(***************************************************************************)
isPointNearBoundary(dsq, r) ==
    LET tn == Den * ThresholdNum
        lo == (tn * tn) \div ThresholdDen
        hi == lo + (IF (tn * tn) % ThresholdDen = 0 THEN 0 ELSE 1)
    IN  /\ ThresholdDen * (dsq - r * r) - 2 * r * tn <= lo
        /\ \/ r * ThresholdDen <= tn
           \/ ThresholdDen * (r * r - dsq) - 2 * r * tn <= -hi

----------------------------------------------------------------------------
(* Grid.h *)

Indices == 0 .. (GridN * GridN - 1)

\* Grid::getPointMutable(row, col) addresses points[row * size + col]
Index(row, col) == row * GridN + col

\* Grid::Grid stores gridPos(col, row) at index row * size + col
gridX(k) == (k % GridN) * Den

gridY(k) == (k \div GridN) * Den

\* Grid::resetHighlights
resetHighlights(h) == [k \in Indices |-> FALSE]

\* the loop starting at points[1]
RECURSIVE boundsLoopSkipFirst(_, _, _, _)
boundsLoopSkipFirst(h, cx, cy, k) ==
    IF k <= 1 THEN <<DblMax, 0, FALSE>>
    ELSE LET acc == boundsLoopSkipFirst(h, cx, cy, k - 1)
             dist == distanceSquaredTo(cx, cy, gridX(k - 1), gridY(k - 1))
         IN  IF h[k - 1]
               THEN <<Min(acc[1], dist), Max(acc[2], dist), TRUE>>
               ELSE acc

\* the loop passing over a highlighted point that is the center
RECURSIVE boundsLoopSkipCenter(_, _, _, _)
boundsLoopSkipCenter(h, cx, cy, k) ==
    IF k = 0 THEN <<DblMax, 0, FALSE>>
    ELSE LET acc == boundsLoopSkipCenter(h, cx, cy, k - 1)
             dist == distanceSquaredTo(cx, cy, gridX(k - 1), gridY(k - 1))
         IN  IF h[k - 1] /\ dist > 0
               THEN <<Min(acc[1], dist), Max(acc[2], dist), TRUE>>
               ELSE acc

\* the loop of Grid::calculateBoundingCircles over points[0 .. k-1]:
\* <<minDistance^2, maxDistance^2, hasHighlightedPoints>>
RECURSIVE boundsLoop(_, _, _, _)
boundsLoop(h, cx, cy, k) ==
    IF k = 0 THEN <<DblMax, 0, FALSE>>
    ELSE LET acc == boundsLoop(h, cx, cy, k - 1)
             dist == distanceSquaredTo(cx, cy, gridX(k - 1), gridY(k - 1))
         IN  IF h[k - 1]
               THEN <<Min(acc[1], dist), Max(acc[2], dist), TRUE>>
               ELSE acc

\* calculateBoundingCircles assigning the circles before the emptiness test
calculateBoundingCirclesEager(h, cx, cy, inner, outer) ==
    LET acc == boundsLoop(h, cx, cy, GridN * GridN)
    IN  [ret |-> acc[3],
         inner |-> [cx |-> cx, cy |-> cy, radiusSq |-> acc[1]],
         outer |-> [cx |-> cx, cy |-> cy, radiusSq |-> acc[2]]]

\* Grid::calculateBoundingCircles: [ret, inner, outer]
calculateBoundingCircles(h, cx, cy, inner, outer) ==
    LET acc == boundsLoop(h, cx, cy, GridN * GridN)
    IN  IF ~acc[3]
          THEN [ret |-> FALSE, inner |-> inner, outer |-> outer]
          ELSE [ret |-> TRUE,
                inner |-> [cx |-> cx, cy |-> cy, radiusSq |-> acc[1]],
                outer |-> [cx |-> cx, cy |-> cy, radiusSq |-> acc[2]]]

----------------------------------------------------------------------------
(* Rasterizer.h *)

\* the flag computed with distanceSquaredTo where distanceTo is meant:
\* |dsq / Den^2 - r / Den| <= threshold
pointFlagSquared(k, c) ==
    LET dsq == distanceSquaredTo(c.cx, c.cy, gridX(k), gridY(k))
    IN  Abs(dsq - c.radius * Den) * ThresholdDen <= Den * Den * ThresholdNum

\* the body of both loops: the flag a point gets
pointFlag(k, c) ==
    isPointNearBoundary(distanceSquaredTo(c.cx, c.cy, gridX(k), gridY(k)), c.radius)

\* the circles drawn by the caller: centres on the lattice, inside the grid,
\* up to Margin/Den outside it and Far units outside it; radii from -1/Den
CenterCoords ==
    (-Margin .. ((GridN - 1) * Den + Margin))
        \cup {-Far * Den, (GridN - 1 + Far) * Den}

Radii == -1 .. MaxRadius

Circles == [cx : CenterCoords, cy : CenterCoords, radius : Radii]

\* the two nested loops of rasterize: every point gets its flag. The flags
\* written do not depend on the flags found, so they are tabulated by circle.
rasterizeLoops == [c \in Circles |-> [k \in Indices |-> pointFlag(k, c)]]

\* rasterize that only ever sets flags
rasterizeAccumulate(h, c) ==
    IF ~isValid(c) THEN h
    ELSE [k \in Indices |-> h[k] \/ pointFlag(k, c)]

\* CircleRasterizer::rasterize
rasterize(h, c) ==
    IF ~isValid(c) THEN h
    ELSE rasterizeLoops[c]

\* the bounding box without std::max and std::min
boundingBoxUnclamped(c) ==
    LET tn == Den * ThresholdNum
        d == Den * ThresholdDen
    IN  [minRow |-> Floor((c.cy - c.radius) * ThresholdDen - tn, d),
         maxRow |-> Ceil((c.cy + c.radius) * ThresholdDen + tn, d),
         minCol |-> Floor((c.cx - c.radius) * ThresholdDen - tn, d),
         maxCol |-> Ceil((c.cx + c.radius) * ThresholdDen + tn, d)]

\* the clamped bounding box of CircleRasterizer::rasterizeOptimized
boundingBox(c) ==
    LET tn == Den * ThresholdNum
        d == Den * ThresholdDen
    IN  [minRow |-> Max(0, Floor((c.cy - c.radius) * ThresholdDen - tn, d)),
         maxRow |-> Min(GridN - 1, Ceil((c.cy + c.radius) * ThresholdDen + tn, d)),
         minCol |-> Max(0, Floor((c.cx - c.radius) * ThresholdDen - tn, d)),
         maxCol |-> Min(GridN - 1, Ceil((c.cx + c.radius) * ThresholdDen + tn, d))]

\* the indices visited by the first pair of loops of rasterizeOptimized
inBox(c) ==
    LET b == boundingBox(c)
    IN  {Index(row, col) : row \in b.minRow .. b.maxRow, col \in b.minCol .. b.maxCol}

\* the loops of rasterizeOptimized: the points of the box get their flag,
\* the second pair of loops clears the others; tabulated by circle
rasterizeOptimizedLoops ==
    [c \in Circles |->
        LET box == inBox(c)
        IN  [k \in Indices |-> IF k \in box THEN pointFlag(k, c) ELSE FALSE]]

\* rasterizeOptimized without its second pair of loops
rasterizeOptimizedNoClear(h, c) ==
    IF ~isValid(c) THEN h
    ELSE LET box == inBox(c)
         IN  [k \in Indices |-> IF k \in box THEN pointFlag(k, c) ELSE h[k]]

\* CircleRasterizer::rasterizeOptimized
rasterizeOptimized(h, c) ==
    IF ~isValid(c) THEN h
    ELSE rasterizeOptimizedLoops[c]

----------------------------------------------------------------------------
(* IEEE-754 binary64, the double of Problem2/Geometry.h *)

\* naturals of any size: little-endian sequences of limbs below LimbBase
LimbBase == 2^14

Limb(a, i) == IF i <= Len(a) THEN a[i] ELSE 0

RECURSIVE NTrim(_)
NTrim(a) ==
    IF a # <<>> /\ a[Len(a)] = 0 THEN NTrim(SubSeq(a, 1, Len(a) - 1)) ELSE a

NAdd(a, b) ==
    LET n == IF Len(a) > Len(b) THEN Len(a) ELSE Len(b)
        RECURSIVE go(_, _)
        go(i, c) ==
            IF i > n THEN (IF c = 0 THEN <<>> ELSE <<c>>)
            ELSE LET t == Limb(a, i) + Limb(b, i) + c
                 IN  <<t % LimbBase>> \o go(i + 1, t \div LimbBase)
    IN  go(1, 0)

\* a - b for a >= b
NSub(a, b) ==
    LET RECURSIVE go(_, _)
        go(i, c) ==
            IF i > Len(a) THEN <<>>
            ELSE LET t == a[i] - Limb(b, i) - c
                 IN  IF t < 0 THEN <<t + LimbBase>> \o go(i + 1, 1)
                              ELSE <<t>> \o go(i + 1, 0)
    IN  NTrim(go(1, 0))

\* -1, 0, 1 as a < b, a = b, a > b (both trimmed)
NCmp(a, b) ==
    LET RECURSIVE go(_)
        go(i) ==
            IF i = 0 THEN 0
            ELSE IF a[i] < b[i] THEN -1
            ELSE IF a[i] > b[i] THEN 1
            ELSE go(i - 1)
    IN  IF Len(a) < Len(b) THEN -1
        ELSE IF Len(a) > Len(b) THEN 1
        ELSE go(Len(a))

\* a * k for 0 <= k <= LimbBase
NMulSmall(a, k) ==
    LET RECURSIVE go(_, _)
        go(i, c) ==
            IF i > Len(a) THEN (IF c = 0 THEN <<>> ELSE <<c>>)
            ELSE LET t == a[i] * k + c
                 IN  <<t % LimbBase>> \o go(i + 1, t \div LimbBase)
    IN  IF k = 0 THEN <<>> ELSE go(1, 0)

\* a \div k for 0 < k <= LimbBase
NDivSmall(a, k) ==
    LET RECURSIVE go(_, _)
        go(i, r) ==
            IF i = 0 THEN <<>>
            ELSE LET t == r * LimbBase + a[i]
                 IN  go(i - 1, t % k) \o <<t \div k>>
    IN  NTrim(go(Len(a), 0))

NZeros(n) == [i \in 1 .. n |-> 0]

\* a * 2^n
NShl(a, n) ==
    IF a = <<>> THEN <<>>
    ELSE NMulSmall(NZeros(n \div 14) \o a, 2^(n % 14))

\* a \div 2^n
NShr(a, n) ==
    IF n \div 14 >= Len(a) THEN <<>>
    ELSE NDivSmall(SubSeq(a, n \div 14 + 1, Len(a)), 2^(n % 14))

NMul(a, b) ==
    LET RECURSIVE go(_)
        go(i) ==
            IF i > Len(b) THEN <<>>
            ELSE NAdd(NZeros(i - 1) \o NMulSmall(a, b[i]), go(i + 1))
    IN  NTrim(go(1))

RECURSIVE SmallBitLen(_)
SmallBitLen(x) == IF x = 0 THEN 0 ELSE 1 + SmallBitLen(x \div 2)

\* the number of bits of a (trimmed)
NBitLen(a) == IF a = <<>> THEN 0 ELSE (Len(a) - 1) * 14 + SmallBitLen(a[Len(a)])

NIsOdd(a) == a # <<>> /\ a[1] % 2 = 1

\* the limbs of an int n >= 0
NFromInt(n) == NTrim(<<n % LimbBase, (n \div LimbBase) % LimbBase, n \div (LimbBase * LimbBase)>>)

\* floor(a * LimbBase^4 / d) and whether a remainder is left, for a < 2 d and
\* d of four limbs with d[4] >= LimbBase / 2 (Knuth's algorithm D)
NDivide(a, d) ==
    LET top(r) == Limb(r, 5) * LimbBase + Limb(r, 4)
        RECURSIVE fix(_, _)
        fix(r, q) == IF NCmp(NMulSmall(d, q), r) > 0 THEN fix(r, q - 1) ELSE q
        cap(q) == IF q >= LimbBase THEN LimbBase - 1 ELSE q
        \* the quotient digit of r by d, r < d * LimbBase
        digit(r) == fix(r, cap(top(r) \div d[4]))
        shift(rest) == IF rest = <<>> THEN <<>> ELSE <<0>> \o rest
        RECURSIVE go(_, _, _)
        step(r, n, q, g, rest) ==
            IF n = 0 THEN <<NTrim(<<g>> \o q), rest # <<>>>>
            ELSE go(shift(rest), n - 1, <<g>> \o q)
        sub(r, n, q, g) == step(r, n, q, g, NSub(r, NMulSmall(d, g)))
        go(r, n, q) == sub(r, n, q, digit(r))
    IN  go(a, 4, <<>>)

\* floor(sqrt(a)) and whether a is not a square: bit by bit from the highest
\* power of 4 in a, n the part of a not yet taken and res the root so far
NSqrt(a) ==
    LET \* one pass for the bit at position k on st = <<n, res>>; none for k < 0
        pass(st, k) ==
            IF k < 0 THEN st
            ELSE LET bit == NShl(<<1>>, k)
                     t == NAdd(st[2], bit)
                 IN  IF NCmp(st[1], t) >= 0
                     THEN <<NSub(st[1], t), NAdd(NShr(st[2], 1), bit)>>
                     ELSE <<st[1], NShr(st[2], 1)>>
        \* four passes at a time, each on the value the one before it left
        RECURSIVE go(_, _)
        go(st, k) ==
            IF k < 0 THEN <<st[2], st[1] # <<>>>>
            ELSE CHOOSE r \in
                    {go(s4, k - 8) :
                        s4 \in {pass(s3, k - 6) :
                            s3 \in {pass(s2, k - 4) :
                                s2 \in {pass(s1, k - 2) :
                                    s1 \in {pass(st, k)}}}}} : TRUE
    IN  go(<<a, <<>>>>, ((NBitLen(a) - 1) \div 2) * 2)

----------------------------------------------------------------------------
\* a double: finite (-1)^s * m * 2^e with m < 2^53 (m = <<>> is zero),
\* infinite, or NaN
Fin(s, e, m) == [k |-> "fin", s |-> s, e |-> e, m |-> m]
Zero(s) == Fin(s, 0, <<>>)
Inf(s) == [k |-> "inf", s |-> s, e |-> 0, m |-> <<>>]
NaN == [k |-> "nan", s |-> 0, e |-> 0, m |-> <<>>]

IsNaN(x) == x.k = "nan"
IsInf(x) == x.k = "inf"
IsZero(x) == x.k = "fin" /\ x.m = <<>>

\* round (-1)^s * (m + f) * 2^e, where 0 <= f < 1 and f > 0 iff sticky, to the
\* nearest double, ties to even
FRound(s, e, m, sticky) ==
    LET finite(e1, m1) == IF e1 + 52 > 1023 THEN Inf(s) ELSE Fin(s, e1, m1)
        \* the rounded significand q1 at exponent et
        pack(et, q1) ==
            IF q1 = <<>> THEN Zero(s)
            ELSE IF NBitLen(q1) > 53 THEN finite(et + 1, NShr(q1, 1))
            ELSE finite(et, q1)
        \* c: twice the part of m below the kept bits q, against 2^sh
        up(q, c) == c > 0 \/ (c = 0 /\ (sticky \/ NIsOdd(q)))
        increment(et, q, c) == pack(et, IF up(q, c) THEN NAdd(q, <<1>>) ELSE q)
        cut(et, sh, q) ==
            increment(et, q, NCmp(NShl(NSub(m, NShl(q, sh)), 1), NShl(<<1>>, sh)))
        \* et: the exponent of the result, no lower than that of subnormals
        place(et) ==
            IF et <= e THEN finite(et, NShl(m, e - et))
            ELSE cut(et, et - e, NShr(m, et - e))
        target(x) == IF x < -1074 THEN -1074 ELSE x
    IN  IF m = <<>> THEN Zero(s)
        ELSE place(target(e + NBitLen(m) - 53))

FNeg(x) == IF IsNaN(x) THEN x ELSE [x EXCEPT !.s = 1 - x.s]

FAbs(x) == IF IsNaN(x) THEN x ELSE [x EXCEPT !.s = 0]

\* the double of an int
FInt(n) == IF n < 0 THEN FRound(1, 0, NFromInt(-n), FALSE)
           ELSE FRound(0, 0, NFromInt(n), FALSE)

\* the double with mantissa hi * 2^27 + lo
FLit(s, e, hi, lo) == Fin(s, e, NAdd(NShl(NFromInt(hi), 27), NFromInt(lo)))

FAdd(x, y) ==
    LET \* a and b: the significands at the common exponent e; c: a against b
        signed(e, a, b, c) ==
            IF x.s # y.s /\ c = 0 THEN Zero(0)
            ELSE FRound(IF x.s = y.s \/ c > 0 THEN x.s ELSE y.s,
                        e,
                        IF x.s = y.s THEN NAdd(a, b)
                        ELSE IF c > 0 THEN NSub(a, b) ELSE NSub(b, a),
                        FALSE)
        compared(e, a, b) == signed(e, a, b, NCmp(a, b))
        aligned(e) == compared(e, NShl(x.m, x.e - e), NShl(y.m, y.e - e))
    IN  IF IsNaN(x) \/ IsNaN(y) THEN NaN
        ELSE IF IsInf(x) THEN (IF IsInf(y) /\ x.s # y.s THEN NaN ELSE x)
        ELSE IF IsInf(y) THEN y
        ELSE IF IsZero(x) THEN (IF IsZero(y) THEN Zero(IF x.s = 1 /\ y.s = 1 THEN 1 ELSE 0) ELSE y)
        ELSE IF IsZero(y) THEN x
        ELSE IF x.e - y.e > 56 THEN x
        ELSE IF y.e - x.e > 56 THEN y
        ELSE aligned(IF x.e < y.e THEN x.e ELSE y.e)

FSub(x, y) == FAdd(x, FNeg(y))

FMul(x, y) ==
    LET sign(s) ==
            IF IsInf(x) \/ IsInf(y) THEN (IF IsZero(x) \/ IsZero(y) THEN NaN ELSE Inf(s))
            ELSE IF IsZero(x) \/ IsZero(y) THEN Zero(s)
            ELSE FRound(s, x.e + y.e, NMul(x.m, y.m), FALSE)
    IN  IF IsNaN(x) \/ IsNaN(y) THEN NaN
        ELSE sign(IF x.s = y.s THEN 0 ELSE 1)

\* m * 2^(56 - bits of m): four limbs, the highest at least LimbBase / 2
NNormal(m) == NShl(m, 56 - NBitLen(m))

\* the exponent that goes with NNormal(x.m)
ENormal(x) == x.e - (56 - NBitLen(x.m))

FDiv(x, y) ==
    LET quotient(s, qr) == FRound(s, ENormal(x) - ENormal(y) - 56, qr[1], qr[2])
        sign(s) ==
            IF IsInf(x) THEN (IF IsInf(y) THEN NaN ELSE Inf(s))
            ELSE IF IsInf(y) THEN Zero(s)
            ELSE IF IsZero(y) THEN (IF IsZero(x) THEN NaN ELSE Inf(s))
            ELSE IF IsZero(x) THEN Zero(s)
            ELSE quotient(s, NDivide(NNormal(x.m), NNormal(y.m)))
    IN  IF IsNaN(x) \/ IsNaN(y) THEN NaN
        ELSE sign(IF x.s = y.s THEN 0 ELSE 1)

FSqrt(x) ==
    LET root(sh, rs) == FRound(0, (x.e - sh) \div 2, rs[1], rs[2])
        \* sh: x is (x.m * 2^sh) * 2^(x.e - sh) with x.e - sh even
        shifted(sh) == root(sh, NSqrt(NShl(x.m, sh)))
        even(n) == IF (x.e - n) % 2 = 0 THEN n ELSE n + 1
    IN  IF IsNaN(x) THEN NaN
        ELSE IF IsZero(x) THEN x
        ELSE IF x.s = 1 THEN NaN
        ELSE IF IsInf(x) THEN x
        ELSE shifted(even(56 - NBitLen(x.m) + 56))

\* -1, 0, 1 as x < y, x = y, x > y, for x and y not NaN
FCmp(x, y) ==
    LET key(v) == IF IsZero(v) THEN 0 ELSE IF v.s = 1 THEN -1 ELSE 1
        \* |x| against |y|, both finite and not zero
        mag(lx, ly) ==
            IF lx < ly THEN -1 ELSE IF lx > ly THEN 1
            ELSE NCmp(NNormal(x.m), NNormal(y.m))
        abs == IF IsInf(x) THEN (IF IsInf(y) THEN 0 ELSE 1)
               ELSE IF IsInf(y) THEN -1
               ELSE mag(x.e + NBitLen(x.m), y.e + NBitLen(y.m))
        signed(kx, ky) ==
            IF kx # ky THEN (IF kx < ky THEN -1 ELSE 1)
            ELSE IF kx = 0 THEN 0
            ELSE IF kx = 1 THEN abs ELSE -abs
    IN  signed(key(x), key(y))

FLt(x, y) == ~IsNaN(x) /\ ~IsNaN(y) /\ FCmp(x, y) < 0
FLe(x, y) == ~IsNaN(x) /\ ~IsNaN(y) /\ FCmp(x, y) <= 0
FGt(x, y) == FLt(y, x)
FGe(x, y) == FLe(y, x)

----------------------------------------------------------------------------
(* Problem2/Config.h, Problem2/Grid.h *)

CELL_SIZE == 40          \* WINDOW_WIDTH / GRID_SIZE = 800 / 20

\* GridPoint::GetPixelCoords of the cell in row i, column j; the coordinates
\* are whole numbers, held as integers until FitCircle computes with them
GetPixelCoords(i, j) ==
    [x |-> j * CELL_SIZE + CELL_SIZE \div 2, y |-> i * CELL_SIZE + CELL_SIZE \div 2]

\* the cells <<row, column>> a selection is made of, in row-major order
Cells == << <<0, 0>>, <<0, 1>>, <<0, 2>>, <<1, 0>>, <<1, 2>>, <<1, 3>>,
            <<3, 5>>, <<9, 19>> >>

MaxPoints == 3           \* a selection has at most MaxPoints cells

Selections == {sel \in SUBSET (1 .. Len(Cells)) : Cardinality(sel) <= MaxPoints}

\* Grid::GetSelectedPoints: the pixel centres of the selected cells, rows
\* from the top and each row from the left
RECURSIVE SelectedFrom(_, _)
SelectedFrom(sel, k) ==
    IF k > Len(Cells) THEN <<>>
    ELSE (IF k \in sel THEN <<GetPixelCoords(Cells[k][1], Cells[k][2])>> ELSE <<>>)
         \o SelectedFrom(sel, k + 1)

GetSelectedPoints(sel) == SelectedFrom(sel, 1)

GRID_SIZE == 20          \* Config.h

\* int / int of C++: the quotient truncated toward zero
Quotient(a, b) == IF a >= 0 THEN a \div b ELSE -((-a) \div b)

\* the range test of TogglePoint, IsSelected and PixelToGrid
inGrid(i, j) == i >= 0 /\ i < GRID_SIZE /\ j >= 0 /\ j < GRID_SIZE

\* Grid::PixelToGrid(x, y, i, j): what it returns and leaves in i and j
PixelToGrid(x, y) ==
    LET j == Quotient(x, CELL_SIZE)
        i == Quotient(y, CELL_SIZE)
    IN  [ret |-> inGrid(i, j), i |-> i, j |-> j]

\* TogglePoint that only ever selects
TogglePointSelect(s, i, j) == IF inGrid(i, j) THEN s \cup {<<i, j>>} ELSE s

\* Grid::TogglePoint(i, j) on the set s of the selected cells
TogglePoint(s, i, j) ==
    IF inGrid(i, j)
    THEN (IF <<i, j>> \in s THEN s \ {<<i, j>>} ELSE s \cup {<<i, j>>})
    ELSE s

IsSelected(s, i, j) == IF inGrid(i, j) THEN <<i, j>> \in s ELSE FALSE

\* Grid::Clear
Clear(s) == {c \in s : FALSE}

\* Grid::GetSelectedPoints on the set s of the selected cells: the pixel
\* centres, rows from the top and each row from the left
RECURSIVE selectedPoints(_)
selectedPoints(s) ==
    IF s = {} THEN <<>>
    ELSE LET first == CHOOSE c \in s :
                         \A d \in s : c[1] < d[1] \/ (c[1] = d[1] /\ c[2] <= d[2])
         IN  <<GetPixelCoords(first[1], first[2])>> \o selectedPoints(s \ {first})

\* arguments FitCircle takes from a caller other than the grid: one point
\* three times, and four points spread wider than the window
DirectPoints ==
    { <<GetPixelCoords(0, 1), GetPixelCoords(0, 1), GetPixelCoords(0, 1)>>,
      <<GetPixelCoords(0, 0), GetPixelCoords(0, 1), GetPixelCoords(0, 40),
        GetPixelCoords(50, 0)>> }

----------------------------------------------------------------------------
(* Problem2/Geometry.h *)

\* Circle::Circle(double cx, double cy, double r)
Circle(cx, cy, r) == [center |-> [x |-> cx, y |-> cy], radius |-> r]

\* Circle::Circle(): what FitCircle returns for "invalid"
CircleDefault == Circle(Zero(0), Zero(0), Zero(0))

IterMax == 20
epsilon == FLit(0, -92, 36893488, 19786257)          \* 1e-12
ynewStart == FLit(0, 14, 45474735, 11897920)         \* 1e+20
DetMin == FLit(0, -86, 57646075, 30916027)           \* 1e-10
RadiusMax == FInt(10000)

\* points.size() < 3 with two points let through
tooFewBelowTwo(pts) == Len(pts) < 2

\* points.size() < 3
tooFew(pts) == Len(pts) < 3

\* sum_x, sum_y after the loop over the points from the k-th on
RECURSIVE sumCoordinates(_, _, _, _)
sumCoordinates(pts, k, sum_x, sum_y) ==
    IF k > Len(pts) THEN <<sum_x, sum_y>>
    ELSE sumCoordinates(pts, k + 1,
                        FAdd(sum_x, FInt(pts[k].x)), FAdd(sum_y, FInt(pts[k].y)))

\* the local variables of a call that has not computed anything; i counts
\* the points the moments loop has taken
NoLocals ==
    [cx |-> Zero(0), cy |-> Zero(0), i |-> 0,
     Mxx |-> Zero(0), Myy |-> Zero(0), Mxy |-> Zero(0),
     Mxz |-> Zero(0), Myz |-> Zero(0), Mzz |-> Zero(0),
     Mz |-> Zero(0), Cov_xy |-> Zero(0), Var_z |-> Zero(0),
     A0 |-> Zero(0), A1 |-> Zero(0), A2 |-> Zero(0), A22 |-> Zero(0),
     xnew |-> Zero(0), ynew |-> Zero(0), iter |-> 0, exit |-> "none",
     DET |-> Zero(0), rejected |-> "none"]

\* the test on |f| with no increase ever seen
increasedNever(ynew, yold) == FALSE

\* std::abs(ynew) > std::abs(yold)
increased(ynew, yold) == FGt(FAbs(ynew), FAbs(yold))

\* the last pass with xnew left as it is
lastPassNever(iter) == FALSE

\* iter >= IterMax - 1, the pass after which xnew is set to 0
lastPass(iter) == iter >= IterMax - 1

\* a negative xnew taken for a root
negativeNever(xnew) == FALSE

\* xnew < 0
negative(xnew) == FLt(xnew, Zero(0))

\* DET with Cov_xy left out
determinantNoCov(l) == FSub(FMul(l.xnew, l.xnew), FMul(l.xnew, l.Mz))

\* DET = xnew * xnew - xnew * Mz + Cov_xy
determinant(l) == FAdd(FSub(FMul(l.xnew, l.xnew), FMul(l.xnew, l.Mz)), l.Cov_xy)

\* center_x in the coordinates of the argument
center_x(l) ==
    FAdd(FDiv(FDiv(FSub(FMul(l.Mxz, FSub(l.Myy, l.xnew)), FMul(l.Myz, l.Mxy)), l.DET),
              FInt(2)),
         l.cx)

\* center_y in the coordinates of the argument
center_y(l) ==
    FAdd(FDiv(FDiv(FSub(FMul(l.Myz, FSub(l.Mxx, l.xnew)), FMul(l.Mxz, l.Mxy)), l.DET),
              FInt(2)),
         l.cy)

\* sqrt(dx * dx + dy * dy)
distance(dx, dy) == FSqrt(FAdd(FMul(dx, dx), FMul(dy, dy)))

\* sum_r after the loop over the points from the k-th on: the distances
\* from the centre (x, y), added up
RECURSIVE sumDistances(_, _, _, _, _)
sumDistances(pts, x, y, k, sum_r) ==
    IF k > Len(pts) THEN sum_r
    ELSE sumDistances(pts, x, y, k + 1,
                      FAdd(sum_r, distance(FSub(FInt(pts[k].x), x),
                                           FSub(FInt(pts[k].y), y))))

\* the radius without the division by the number of points
meanDistanceUndivided(pts, x, y) == sumDistances(pts, x, y, 1, Zero(0))

\* radius = sum_r / points.size()
meanDistance(pts, x, y) == FDiv(sumDistances(pts, x, y, 1, Zero(0)), FInt(Len(pts)))

\* the last test without the bound on the radius
insaneUnbounded(x, y, radius) ==
    \/ IsNaN(x) \/ IsNaN(y) \/ IsNaN(radius)
    \/ IsInf(x) \/ IsInf(y) \/ IsInf(radius)
    \/ FLe(radius, Zero(0))

\* the last test of FitCircle: the circle is not returned
insane(x, y, radius) ==
    \/ IsNaN(x) \/ IsNaN(y) \/ IsNaN(radius)
    \/ IsInf(x) \/ IsInf(y) \/ IsInf(radius)
    \/ FLe(radius, Zero(0))
    \/ FGt(radius, RadiusMax)

----------------------------------------------------------------------------
(* A call of FitCircle, step by step *)

FitInputs == {GetSelectedPoints(sel) : sel \in Selections} \cup DirectPoints

\* FitCircle is entered: too few points return at once, otherwise the
\* centroid is computed
FitCircleEnter(pts) ==
    /\ at = "idle"
    /\ points' = pts
    /\ IF tooFew(pts)
       THEN /\ result' = CircleDefault
            /\ fit' = fit
            /\ at' = "done"
       ELSE /\ \E sum \in {sumCoordinates(pts, 1, Zero(0), Zero(0))} :
                  fit' = [fit EXCEPT !.cx = FDiv(sum[1], FInt(Len(pts))),
                                     !.cy = FDiv(sum[2], FInt(Len(pts)))]
            /\ result' = result
            /\ at' = "moments"
    /\ UNCHANGED <<gridVars, transformVars, ellipseVars, earlier, appVars>>

\* the next point is translated to the centroid and added to the moments
AddMoments ==
    /\ at = "moments"
    /\ fit.i < Len(points)
    /\ \E x \in {FSub(FInt(points[fit.i + 1].x), fit.cx)} :
       \E y \in {FSub(FInt(points[fit.i + 1].y), fit.cy)} :
       \E zi \in {FAdd(FMul(x, x), FMul(y, y))} :
          fit' = [fit EXCEPT !.Mxx = FAdd(@, FMul(x, x)),
                             !.Myy = FAdd(@, FMul(y, y)),
                             !.Mxy = FAdd(@, FMul(x, y)),
                             !.Mxz = FAdd(@, FMul(x, zi)),
                             !.Myz = FAdd(@, FMul(y, zi)),
                             !.Mzz = FAdd(@, FMul(zi, zi)),
                             !.i = @ + 1]
    /\ UNCHANGED <<points, at, result>>
    /\ UNCHANGED <<gridVars, transformVars, ellipseVars, earlier, appVars>>

\* the moments are divided by the number of points; Mz, Cov_xy, Var_z and
\* the coefficients A2, A1, A0, A22 of the characteristic polynomial; the
\* Newton loop is entered with xnew = 0 and ynew = 1e+20
ComputeCoefficients ==
    /\ at = "moments"
    /\ fit.i >= Len(points)
    /\ \E Mxx \in {FDiv(fit.Mxx, FInt(Len(points)))} :
       \E Myy \in {FDiv(fit.Myy, FInt(Len(points)))} :
       \E Mxy \in {FDiv(fit.Mxy, FInt(Len(points)))} :
       \E Mxz \in {FDiv(fit.Mxz, FInt(Len(points)))} :
       \E Myz \in {FDiv(fit.Myz, FInt(Len(points)))} :
       \E Mzz \in {FDiv(fit.Mzz, FInt(Len(points)))} :
       \E Mz \in {FAdd(Mxx, Myy)} :
       \E Cov_xy \in {FSub(FMul(Mxx, Myy), FMul(Mxy, Mxy))} :
       \E Var_z \in {FSub(Mzz, FMul(Mz, Mz))} :
       \E A2 \in {FSub(FSub(FMul(FInt(4), Cov_xy), FMul(FMul(FInt(3), Mz), Mz)), Mzz)} :
          fit' = [fit EXCEPT
                    !.Mxx = Mxx, !.Myy = Myy, !.Mxy = Mxy,
                    !.Mxz = Mxz, !.Myz = Myz, !.Mzz = Mzz,
                    !.Mz = Mz, !.Cov_xy = Cov_xy, !.Var_z = Var_z,
                    !.A2 = A2,
                    !.A1 = FAdd(FAdd(FAdd(FMul(Var_z, Mz),
                                          FMul(FMul(FInt(4), Cov_xy), Mz)),
                                     FMul(Mxz, Mxz)),
                                FMul(Myz, Myz)),
                    !.A0 = FSub(FAdd(FMul(Mxz, FSub(FMul(Mxz, Myy), FMul(Myz, Mxy))),
                                     FMul(Myz, FSub(FMul(Myz, Mxx), FMul(Mxz, Mxy)))),
                                FMul(Var_z, Cov_xy)),
                    !.A22 = FAdd(A2, A2),
                    !.xnew = Zero(0), !.ynew = ynewStart]
    /\ at' = "newton"
    /\ UNCHANGED <<points, result>>
    /\ UNCHANGED <<gridVars, transformVars, ellipseVars, earlier, appVars>>

\* one pass of the body of the Newton loop, for (iter = fit.iter); exit
\* tells how the loop was left, "none" while it goes on:
\*   "increase"  |ynew| grew, xnew = 0                    (break)
\*   "converged" the relative step is below epsilon        (break)
\*   "negative"  xnew < 0, xnew = 0                        (break)
\*   "cap"       the last pass, xnew = 0, iter < IterMax fails
NewtonStep ==
    /\ at = "newton"
    /\ \E ynew \in {FAdd(fit.A0,
                         FMul(fit.xnew,
                              FAdd(fit.A1,
                                   FMul(fit.xnew,
                                        FAdd(fit.A2,
                                             FMul(FMul(FInt(4), fit.xnew),
                                                  fit.xnew))))))} :
          IF increased(ynew, fit.ynew)
          THEN fit' = [fit EXCEPT !.ynew = ynew, !.xnew = Zero(0),
                                  !.exit = "increase"]
          ELSE \E Dy \in {FAdd(fit.A1,
                               FMul(fit.xnew,
                                    FAdd(fit.A22,
                                         FMul(FMul(FInt(16), fit.xnew),
                                              fit.xnew))))} :
               \E xnew \in {FSub(fit.xnew, FDiv(ynew, Dy))} :
                  IF FLt(FAbs(FDiv(FSub(xnew, fit.xnew), xnew)), epsilon)
                  THEN fit' = [fit EXCEPT !.ynew = ynew, !.xnew = xnew,
                                          !.exit = "converged"]
                  ELSE \E capped \in {IF lastPass(fit.iter)
                                      THEN Zero(0) ELSE xnew} :
                          IF negative(capped)
                          THEN fit' = [fit EXCEPT !.ynew = ynew,
                                                  !.xnew = Zero(0),
                                                  !.exit = "negative"]
                          ELSE fit' = [fit EXCEPT
                                         !.ynew = ynew, !.xnew = capped,
                                         !.iter = @ + 1,
                                         !.exit = IF fit.iter + 1 < IterMax
                                                  THEN "none" ELSE "cap"]
    /\ at' = IF fit'.exit = "none" THEN "newton" ELSE "det"
    /\ UNCHANGED <<points, result>>
    /\ UNCHANGED <<gridVars, transformVars, ellipseVars, earlier, appVars>>

\* DET and the test on it
DeterminantCheck ==
    /\ at = "det"
    /\ \E DET \in {determinant(fit)} :
          IF FLt(FAbs(DET), DetMin)
          THEN /\ fit' = [fit EXCEPT !.DET = DET, !.rejected = "det"]
               /\ result' = CircleDefault
               /\ at' = "done"
          ELSE /\ fit' = [fit EXCEPT !.DET = DET]
               /\ result' = result
               /\ at' = "center"
    /\ UNCHANGED points
    /\ UNCHANGED <<gridVars, transformVars, ellipseVars, earlier, appVars>>

\* centre, radius, the last test and the return
ComputeCircle ==
    /\ at = "center"
    /\ \E x \in {center_x(fit)} :
       \E y \in {center_y(fit)} :
       \E radius \in {meanDistance(points, x, y)} :
          IF insane(x, y, radius)
          THEN /\ fit' = [fit EXCEPT !.rejected = "sanity"]
               /\ result' = CircleDefault
          ELSE /\ fit' = fit
               /\ result' = Circle(x, y, radius)
    /\ at' = "done"
    /\ UNCHANGED points
    /\ UNCHANGED <<gridVars, transformVars, ellipseVars, earlier, appVars>>

\* the result is taken and the locals of the call live on into the next
FitReturnStale ==
    /\ at = "done"
    /\ at' = "idle"
    /\ points' = <<>>
    /\ fit' = fit
    /\ result' = CircleDefault
    /\ UNCHANGED <<gridVars, transformVars, ellipseVars>>

\* the caller has taken the result
FitReturn ==
    /\ at = "done"
    /\ at' = "idle"
    /\ points' = <<>>
    /\ fit' = NoLocals
    /\ result' = CircleDefault
    /\ UNCHANGED <<gridVars, transformVars, ellipseVars>>

----------------------------------------------------------------------------
(* Problem1/Geometry.h: CoordinateTransform, in binary64 *)

Point2D(x, y) == [x |-> x, y |-> y]

\* gridSize - 1 taken for gridSize
cellsAll(gridSize) == gridSize

\* gridSize - 1, the number of spacings along a side of the grid
cells(gridSize) == gridSize - 1

\* the object made by CoordinateTransform(gridSz, canvasWidth, canvasHeight,
\* padding); availableWidth, availableHeight and minDimension are ints
CoordinateTransform(gridSz, canvasWidth, canvasHeight, padding) ==
    LET availableWidth == canvasWidth - 2 * padding
        availableHeight == canvasHeight - 2 * padding
        minDimension == Min(availableWidth, availableHeight)
        gridSpacing == FDiv(FInt(minDimension), FInt(cells(gridSz)))
    IN  [gridSize |-> gridSz,
         gridSpacing |-> gridSpacing,
         gridOrigin |->
            Point2D(FAdd(FInt(padding),
                         FDiv(FSub(FInt(availableWidth),
                                   FMul(gridSpacing, FInt(cells(gridSz)))),
                              FInt(2))),
                    FAdd(FInt(padding),
                         FDiv(FSub(FInt(availableHeight),
                                   FMul(gridSpacing, FInt(cells(gridSz)))),
                              FInt(2))))]

\* canvasToGrid with the origin not taken off
canvasToGridFromZero(t, canvas) ==
    Point2D(FDiv(canvas.x, t.gridSpacing), FDiv(canvas.y, t.gridSpacing))

canvasToGrid(t, canvas) ==
    Point2D(FDiv(FSub(canvas.x, t.gridOrigin.x), t.gridSpacing),
            FDiv(FSub(canvas.y, t.gridOrigin.y), t.gridSpacing))

gridToCanvas(t, grid) ==
    Point2D(FAdd(t.gridOrigin.x, FMul(grid.x, t.gridSpacing)),
            FAdd(t.gridOrigin.y, FMul(grid.y, t.gridSpacing)))

\* the arguments the constructor is called with: the program's 20, 800, 800,
\* 50 (Config.h) and others with gridSize >= 2
Configurations ==
    {<<20, 800, 800, 50>>, <<4, 100, 100, 10>>, <<8, 800, 600, 50>>,
     <<2, 800, 600, 50>>, <<7, 640, 480, 0>>}

NoTransform == [gridSize |-> 0]

NoConversion == [op |-> "none"]

\* the constructor
TransformConstruct(gridSz, canvasWidth, canvasHeight, padding) ==
    /\ transform = NoTransform
    /\ transform' = CoordinateTransform(gridSz, canvasWidth, canvasHeight, padding)
    /\ conv' = [op |-> "construct", gridSz |-> gridSz, canvasWidth |-> canvasWidth,
                canvasHeight |-> canvasHeight, padding |-> padding]
    /\ UNCHANGED <<gridVars, fitVars, ellipseVars, earlier, appVars>>

\* gridToCanvas of the grid point (col, row), as in Grid::Grid, the first
\* conversion made with the object
CallGridToCanvas(col, row) ==
    /\ transform # NoTransform
    /\ conv.op = "construct"
    /\ conv' = [op |-> "gridToCanvas",
                grid |-> Point2D(FInt(col), FInt(row)),
                canvas |-> gridToCanvas(transform, Point2D(FInt(col), FInt(row)))]
    /\ UNCHANGED transform
    /\ UNCHANGED <<gridVars, fitVars, ellipseVars, earlier, appVars>>

\* canvasToGrid of the canvas point that gridToCanvas returned
CallCanvasToGrid ==
    /\ transform # NoTransform
    /\ conv.op = "gridToCanvas"
    /\ conv' = [op |-> "canvasToGrid", grid |-> conv.grid, canvas |-> conv.canvas,
                back |-> canvasToGrid(transform, conv.canvas)]
    /\ UNCHANGED transform
    /\ UNCHANGED <<gridVars, fitVars, ellipseVars, earlier, appVars>>

\* the object goes out of use
TransformRelease ==
    /\ transform # NoTransform
    /\ conv.op \in {"construct", "canvasToGrid"}
    /\ transform' = NoTransform
    /\ conv' = NoConversion
    /\ UNCHANGED <<gridVars, fitVars, ellipseVars, earlier, appVars>>

----------------------------------------------------------------------------
(* Problem1 in binary64, as the Application runs it: Config.h, Geometry.h,
   Grid.h, Rasterizer.h *)

WINDOW_WIDTH == 800
WINDOW_HEIGHT == 800
GRID_PADDING == 50

Threshold64 == FLit(0, -53, 47452677, 98569499)    \* RASTERIZATION_THRESHOLD, 0.7071
MinRadius == FLit(0, -56, 53687091, 26843546)      \* 0.1
DoubleMax == FLit(0, 971, 67108863, 134217727)     \* numeric_limits<double>::max()

\* a natural below 2^31, held in limbs, as an integer
RECURSIVE NToInt(_)
NToInt(a) == IF a = <<>> THEN 0 ELSE a[1] + LimbBase * NToInt(SubSeq(a, 2, Len(a)))

\* the whole part of |x|, and whether x has a fraction, for finite x
Whole(x) == IF x.e >= 0 THEN NShl(x.m, x.e) ELSE NShr(x.m, -x.e)

Fraction(x) == x.e < 0 /\ NShl(NShr(x.m, -x.e), -x.e) # x.m

\* static_cast<int>(std::floor(x)) and static_cast<int>(std::ceil(x)) for
\* |x| < 2^31
floorInt(x) ==
    IF x.s = 0 THEN NToInt(Whole(x))
    ELSE -(NToInt(Whole(x)) + (IF Fraction(x) THEN 1 ELSE 0))

ceilInt(x) ==
    IF x.s = 0 THEN NToInt(Whole(x)) + (IF Fraction(x) THEN 1 ELSE 0)
    ELSE -NToInt(Whole(x))

\* Point2D::distanceTo; dx, dy and the sum are doubles computed before the
\* square root is taken
distanceTo(p, q) ==
    CHOOSE d \in
        {FSqrt(sum) :
            sum \in {FAdd(FMul(dx, dx), FMul(dy, dy)) :
                        dx \in {FSub(p.x, q.x)}, dy \in {FSub(p.y, q.y)}}} : TRUE

\* Circle::distanceFromBoundary
distanceFromBoundary(c, p) ==
    CHOOSE d \in
        {FAbs(FSub(distToCenter, c.radius)) :
            distToCenter \in {distanceTo(c.center, p)}} : TRUE

\* GridPoint(grid, canvas), without the flag
GridPoint(grid, canvas) == [gridPosition |-> grid, canvasPosition |-> canvas]

\* GridPoint()
GridPointDefault == GridPoint(Point2D(Zero(0), Zero(0)), Point2D(Zero(0), Zero(0)))

\* points[k].gridPosition as Grid::Grid sets it, k = row * size + col
gridPosition(size, k) == Point2D(FInt(k % size), FInt(k \div size))

\* the vector points after n calls of emplace_back in Grid::Grid; points[k] of
\* the code is element k + 1 of the sequence
RECURSIVE emplaced(_, _, _)
emplaced(t, size, n) ==
    IF n = 0
    THEN <<>>
    ELSE Append(emplaced(t, size, n - 1),
                GridPoint(gridPosition(size, n - 1),
                          gridToCanvas(t, gridPosition(size, n - 1))))

\* Grid::Grid: transform, and points[row * size + col] for every row and col
GridConstruct(gridSize, canvasWidth, canvasHeight, padding) ==
    CHOOSE g \in {[size |-> gridSize,
                   transform |-> t,
                   points |-> emplaced(t, gridSize, gridSize * gridSize)] :
                  t \in {CoordinateTransform(gridSize, canvasWidth,
                                             canvasHeight, padding)}} : TRUE

\* the transform of the Grid of the Application
AppTransform ==
    CoordinateTransform(GRID_SIZE, WINDOW_WIDTH, WINDOW_HEIGHT, GRID_PADDING)

\* minRow, maxRow, minCol, maxCol of rasterizeOptimized
boundingBox64(c, size) ==
    [minRow |-> Max(0, floorInt(FSub(FSub(c.center.y, c.radius), Threshold64))),
     maxRow |-> Min(size - 1, ceilInt(FAdd(FAdd(c.center.y, c.radius), Threshold64))),
     minCol |-> Max(0, floorInt(FSub(FSub(c.center.x, c.radius), Threshold64))),
     maxCol |-> Min(size - 1, ceilInt(FAdd(FAdd(c.center.x, c.radius), Threshold64)))]

inBox64(b, row, col) ==
    b.minRow <= row /\ row <= b.maxRow /\ b.minCol <= col /\ col <= b.maxCol

\* the test with twice the threshold
nearBoundaryTwice64(c, p) ==
    FLe(distanceFromBoundary(c, p), FAdd(Threshold64, Threshold64))

\* the test of one point in rasterizeOptimized
nearBoundary64(c, p) == FLe(distanceFromBoundary(c, p), Threshold64)

\* CircleRasterizer::rasterizeOptimized(grid, c) on the set flags of the
\* indices of the highlighted points of a grid of the given size: the points
\* in the box take the value of the test, the points outside it are cleared
rasterizeOptimized64(size, flags, c) ==
    IF ~FGt(c.radius, Zero(0)) THEN flags
    ELSE UNION {{k \in 0 .. size * size - 1 :
                    /\ inBox64(b, k \div size, k % size)
                    /\ nearBoundary64(c, gridPosition(size, k))} :
                b \in {boundingBox64(c, size)}}

\* one pass of the loop of Grid::calculateBoundingCircles: the highlighted
\* point of least index among those left, if there is one
boundsPass64(size, center, st) ==
    IF st.left = {} THEN st
    ELSE CHOOSE next \in
            {[left |-> st.left \ {k},
              acc |-> [minDistance |-> IF FLt(dist, st.acc.minDistance) THEN dist
                                       ELSE st.acc.minDistance,
                       maxDistance |-> IF FLt(st.acc.maxDistance, dist) THEN dist
                                       ELSE st.acc.maxDistance,
                       hasHighlightedPoints |-> TRUE]] :
             <<k, dist>> \in
                {<<i, distanceTo(center, gridPosition(size, i))>> :
                    i \in {j \in st.left : \A h \in st.left : j <= h}}} : TRUE

\* the loop of Grid::calculateBoundingCircles over the highlighted points
\* that are left, in the order of their indices, four passes at a time
RECURSIVE boundsLoop64(_, _, _, _)
boundsLoop64(size, flags, center, acc) ==
    IF flags = {} THEN acc
    ELSE CHOOSE r \in
            {boundsLoop64(size, s4.left, center, s4.acc) :
                s4 \in {boundsPass64(size, center, s3) :
                    s3 \in {boundsPass64(size, center, s2) :
                        s2 \in {boundsPass64(size, center, s1) :
                            s1 \in {boundsPass64(size, center,
                                        [left |-> flags, acc |-> acc])}}}}} : TRUE

\* minDistance, maxDistance and hasHighlightedPoints before the loop
boundsStart64 ==
    [minDistance |-> DoubleMax, maxDistance |-> Zero(0),
     hasHighlightedPoints |-> FALSE]

\* Grid::calculateBoundingCircles(center, innerCircle, outerCircle): the value
\* returned and the two circles after the call
calculateBoundingCircles64(size, flags, center, inner, outer) ==
    CHOOSE r \in
        {IF ~acc.hasHighlightedPoints
         THEN [ret |-> FALSE, inner |-> inner, outer |-> outer]
         ELSE [ret |-> TRUE,
               inner |-> Circle(center.x, center.y, acc.minDistance),
               outer |-> Circle(center.x, center.y, acc.maxDistance)] :
         acc \in {boundsLoop64(size, flags, center, boundsStart64)}} : TRUE

----------------------------------------------------------------------------
(* extracredit/Geometry.h *)

\* EllipseShape(c, _a, _b, _angle)
EllipseShape(c, a, b, angle) ==
    [center |-> c, a |-> a, b |-> b, angle |-> angle, valid |-> TRUE]

\* EllipseShape()
EllipseShapeDefault ==
    [center |-> [x |-> Zero(0), y |-> Zero(0)],
     a |-> Zero(0), b |-> Zero(0), angle |-> Zero(0), valid |-> FALSE]

\* the local variables of a call that has not computed anything; i counts
\* the points the running loop has taken
NoEllipseLocals ==
    [i |-> 0, mean_x |-> Zero(0), mean_y |-> Zero(0),
     var_x |-> Zero(0), var_y |-> Zero(0), covar |-> Zero(0),
     det |-> Zero(0), det_S3 |-> Zero(0),
     mx |-> Zero(0), my |-> Zero(0),
     mxx |-> Zero(0), myy |-> Zero(0), mxy |-> Zero(0),
     theta |-> Zero(0), var1 |-> Zero(0), var2 |-> Zero(0),
     a_axis |-> Zero(0), b_axis |-> Zero(0), swapped |-> FALSE,
     rejected |-> "none"]

Half == FLit(0, -53, 33554432, 0)                  \* 0.5
HalfPi == FLit(0, -52, 52707178, 71576856)         \* 3.14159265358979323846 / 2.0
Pi == FLit(0, -51, 52707178, 71576856)             \* the double nearest pi
CollinearMin == FLit(0, -72, 35184372, 11922829)   \* 1e-6
ScatterMin == FLit(0, -86, 57646075, 30916027)     \* 1e-10
AxisMax == FInt(10000)

\* points.size() < 5 with four points let through
tooFewForEllipseBelowFour(pts) == Len(pts) < 4

\* points.size() < 5
tooFewForEllipse(pts) == Len(pts) < 5

\* D2[k][c]: the row (x, y, 1) of the k-th point
D2(pts, k, c) ==
    IF c = 0 THEN FInt(pts[k].x) ELSE IF c = 1 THEN FInt(pts[k].y) ELSE FInt(1)

\* S3[i][j] after the loop over k from the k-th point on
RECURSIVE sumScatter(_, _, _, _, _)
sumScatter(pts, i, j, k, acc) ==
    IF k > Len(pts) THEN acc
    ELSE sumScatter(pts, i, j, k + 1, FAdd(acc, FMul(D2(pts, k, i), D2(pts, k, j))))

\* det_S3 taken to be 0
determinant3Zero(S3) == Zero(0)

\* det_S3
determinant3(S3) ==
    FAdd(FSub(FMul(S3[0][0], FSub(FMul(S3[1][1], S3[2][2]), FMul(S3[1][2], S3[2][1]))),
              FMul(S3[0][1], FSub(FMul(S3[1][0], S3[2][2]), FMul(S3[1][2], S3[2][0])))),
         FMul(S3[0][2], FSub(FMul(S3[1][0], S3[2][1]), FMul(S3[1][1], S3[2][0]))))

\* 12 cells on the circle of radius 5 cells about cell (7, 7)
CircleSample ==
    <<[x |-> 300, y |-> 100], [x |-> 180, y |-> 140],
      [x |-> 420, y |-> 140], [x |-> 140, y |-> 180],
      [x |-> 460, y |-> 180], [x |-> 100, y |-> 300],
      [x |-> 500, y |-> 300], [x |-> 140, y |-> 420],
      [x |-> 460, y |-> 420], [x |-> 180, y |-> 460],
      [x |-> 420, y |-> 460], [x |-> 300, y |-> 500]>>

\* 6 cells on the ellipse with semi-axes 5 and 2.5 cells about cell (7, 7),
\* the major axis along x
FlatSample ==
    <<[x |-> 180, y |-> 220], [x |-> 420, y |-> 220],
      [x |-> 100, y |-> 300], [x |-> 500, y |-> 300],
      [x |-> 180, y |-> 380], [x |-> 420, y |-> 380]>>

\* the same ellipse with the major axis along y
UprightSample ==
    <<[x |-> 300, y |-> 100], [x |-> 220, y |-> 180],
      [x |-> 380, y |-> 180], [x |-> 220, y |-> 420],
      [x |-> 380, y |-> 420], [x |-> 300, y |-> 500]>>

\* 6 cells on the ellipse with semi-axes 5 sqrt(2) and 2.5 sqrt(2) cells about
\* cell (7, 7), the major axis along the diagonal x = y
TiltedSample ==
    <<[x |-> 100, y |-> 100], [x |-> 260, y |-> 100],
      [x |-> 100, y |-> 260], [x |-> 500, y |-> 340],
      [x |-> 340, y |-> 500], [x |-> 500, y |-> 500]>>

\* 5 cells of CircleSample, all on the side of greater x
ArcSample ==
    <<[x |-> 420, y |-> 140], [x |-> 460, y |-> 180],
      [x |-> 500, y |-> 300], [x |-> 460, y |-> 420],
      [x |-> 420, y |-> 460]>>

\* 5 cells of one row
RowSample ==
    <<[x |-> 20, y |-> 140], [x |-> 60, y |-> 140],
      [x |-> 100, y |-> 140], [x |-> 140, y |-> 140],
      [x |-> 180, y |-> 140]>>

\* 6 cells on the line through (20, 20) of slope 1/2
SlopeSample ==
    <<[x |-> 20, y |-> 20], [x |-> 100, y |-> 60],
      [x |-> 180, y |-> 100], [x |-> 260, y |-> 140],
      [x |-> 420, y |-> 220], [x |-> 500, y |-> 260]>>

\* 5 cells of the diagonal
DiagonalSample ==
    <<[x |-> 20, y |-> 20], [x |-> 60, y |-> 60],
      [x |-> 100, y |-> 100], [x |-> 140, y |-> 140],
      [x |-> 180, y |-> 180]>>

\* 5 points of the line through (1623, 2006) with direction (653, 757), not on
\* the grid
FarSample ==
    <<[x |-> 1623, y |-> 2006], [x |-> 3582, y |-> 4277],
      [x |-> 5541, y |-> 6548], [x |-> 6847, y |-> 8062],
      [x |-> 7500, y |-> 8819]>>

\* 5 points not on one line and spread over 30000 pixels
WideSample ==
    <<[x |-> 0, y |-> 0], [x |-> 30000, y |-> 0],
      [x |-> 0, y |-> 30000], [x |-> 30000, y |-> 30000],
      [x |-> 15000, y |-> 20000]>>

\* fewer than 5 points
FewPoints ==
    {<<>>,
     <<[x |-> 20, y |-> 20]>>,
     <<[x |-> 20, y |-> 20], [x |-> 140, y |-> 20],
       [x |-> 60, y |-> 100], [x |-> 180, y |-> 180]>>,
     <<[x |-> 20, y |-> 140], [x |-> 60, y |-> 140],
       [x |-> 100, y |-> 140], [x |-> 140, y |-> 140]>>}

\* the selections of 5 of the cells (0,0), (0,3), (2,1), (4,4), (1,5), (3,2), (5,0)
FiveOfSeven ==
    {<<[x |-> 20, y |-> 20], [x |-> 140, y |-> 20],
       [x |-> 220, y |-> 60], [x |-> 60, y |-> 100],
       [x |-> 180, y |-> 180]>>,
     <<[x |-> 20, y |-> 20], [x |-> 140, y |-> 20],
       [x |-> 60, y |-> 100], [x |-> 100, y |-> 140],
       [x |-> 180, y |-> 180]>>,
     <<[x |-> 20, y |-> 20], [x |-> 140, y |-> 20],
       [x |-> 60, y |-> 100], [x |-> 180, y |-> 180],
       [x |-> 20, y |-> 220]>>,
     <<[x |-> 20, y |-> 20], [x |-> 140, y |-> 20],
       [x |-> 220, y |-> 60], [x |-> 60, y |-> 100],
       [x |-> 100, y |-> 140]>>,
     <<[x |-> 20, y |-> 20], [x |-> 140, y |-> 20],
       [x |-> 220, y |-> 60], [x |-> 60, y |-> 100],
       [x |-> 20, y |-> 220]>>,
     <<[x |-> 20, y |-> 20], [x |-> 140, y |-> 20],
       [x |-> 60, y |-> 100], [x |-> 100, y |-> 140],
       [x |-> 20, y |-> 220]>>,
     <<[x |-> 20, y |-> 20], [x |-> 140, y |-> 20],
       [x |-> 220, y |-> 60], [x |-> 100, y |-> 140],
       [x |-> 180, y |-> 180]>>,
     <<[x |-> 20, y |-> 20], [x |-> 140, y |-> 20],
       [x |-> 220, y |-> 60], [x |-> 180, y |-> 180],
       [x |-> 20, y |-> 220]>>,
     <<[x |-> 20, y |-> 20], [x |-> 140, y |-> 20],
       [x |-> 100, y |-> 140], [x |-> 180, y |-> 180],
       [x |-> 20, y |-> 220]>>,
     <<[x |-> 20, y |-> 20], [x |-> 140, y |-> 20],
       [x |-> 220, y |-> 60], [x |-> 100, y |-> 140],
       [x |-> 20, y |-> 220]>>,
     <<[x |-> 20, y |-> 20], [x |-> 220, y |-> 60],
       [x |-> 60, y |-> 100], [x |-> 100, y |-> 140],
       [x |-> 180, y |-> 180]>>,
     <<[x |-> 20, y |-> 20], [x |-> 220, y |-> 60],
       [x |-> 60, y |-> 100], [x |-> 180, y |-> 180],
       [x |-> 20, y |-> 220]>>,
     <<[x |-> 20, y |-> 20], [x |-> 60, y |-> 100],
       [x |-> 100, y |-> 140], [x |-> 180, y |-> 180],
       [x |-> 20, y |-> 220]>>,
     <<[x |-> 20, y |-> 20], [x |-> 220, y |-> 60],
       [x |-> 60, y |-> 100], [x |-> 100, y |-> 140],
       [x |-> 20, y |-> 220]>>,
     <<[x |-> 20, y |-> 20], [x |-> 220, y |-> 60],
       [x |-> 100, y |-> 140], [x |-> 180, y |-> 180],
       [x |-> 20, y |-> 220]>>,
     <<[x |-> 140, y |-> 20], [x |-> 220, y |-> 60],
       [x |-> 60, y |-> 100], [x |-> 100, y |-> 140],
       [x |-> 180, y |-> 180]>>,
     <<[x |-> 140, y |-> 20], [x |-> 220, y |-> 60],
       [x |-> 60, y |-> 100], [x |-> 180, y |-> 180],
       [x |-> 20, y |-> 220]>>,
     <<[x |-> 140, y |-> 20], [x |-> 60, y |-> 100],
       [x |-> 100, y |-> 140], [x |-> 180, y |-> 180],
       [x |-> 20, y |-> 220]>>,
     <<[x |-> 140, y |-> 20], [x |-> 220, y |-> 60],
       [x |-> 60, y |-> 100], [x |-> 100, y |-> 140],
       [x |-> 20, y |-> 220]>>,
     <<[x |-> 140, y |-> 20], [x |-> 220, y |-> 60],
       [x |-> 100, y |-> 140], [x |-> 180, y |-> 180],
       [x |-> 20, y |-> 220]>>,
     <<[x |-> 220, y |-> 60], [x |-> 60, y |-> 100],
       [x |-> 100, y |-> 140], [x |-> 180, y |-> 180],
       [x |-> 20, y |-> 220]>>}

\* the point sequences FitEllipse is called with: pixel centres of selected
\* grid cells, rows from the top and each row from the left as
\* GetSelectedPoints gives them, and points that are not on the grid
EllipseInputs ==
    {CircleSample, FlatSample, UprightSample, TiltedSample, ArcSample, RowSample, SlopeSample,
     DiagonalSample, FarSample, WideSample}
        \cup FewPoints \cup FiveOfSeven

\* std::atan2(y, x) as <<y, x, value>>
Atan2Values ==
    {<<FLit(1, -40, 49283072, 0), FLit(1, -43, 50331648, 0), FLit(1, -52, 56967678, 49425015)>>,
     <<FLit(1, -40, 38797312, 0), FLit(0, -43, 33554432, 0), FLit(1, -52, 49093706, 11454204)>>,
     <<FLit(1, -40, 36700160, 0), FLit(1, -44, 33554432, 0), FLit(1, -52, 54622491, 102682862)>>,
     <<FLit(1, -40, 36700160, 0), FLit(0, -41, 37748736, 0), FLit(1, -52, 36768462, 55421637)>>,
     <<FLit(1, -41, 48234496, 0), FLit(0, -43, 50331648, 0), FLit(1, -52, 44144678, 48265426)>>,
     <<FLit(1, -41, 41943040, 0), FLit(1, -41, 58720256, 0), FLit(1, -51, 42301118, 125234048)>>,
     <<FLit(1, -41, 41943040, 0), FLit(1, -42, 50331648, 0), FLit(1, -51, 35420323, 127949252)>>,
     <<FLit(1, -42, 62914560, 0), FLit(1, -44, 33554432, 0), FLit(1, -52, 57154869, 122169498)>>,
     <<FLit(1, -42, 33554432, 0), FLit(0, -42, 37748736, 0), FLit(1, -53, 48764142, 2342313)>>,
     <<FLit(1, -43, 41943040, 0), FLit(0, -42, 50331648, 0), FLit(1, -54, 52987967, 16197131)>>,
     <<FLit(1, -45, 33554432, 0), FLit(0, -41, 41943040, 0), FLit(1, -57, 53642418, 127049510)>>,
     <<FLit(0, -44, 33554432, 0), FLit(1, -41, 44040192, 0), FLit(0, -51, 51114153, 33072341)>>,
     <<FLit(0, -44, 33554432, 0), FLit(1, -41, 39845888, 0), FLit(0, -51, 50947635, 64262540)>>,
     <<FLit(0, -41, 37748736, 0), FLit(1, -45, 33554432, 0), FLit(0, -52, 54569399, 47467198)>>,
     <<FLit(0, -41, 43690666, 89478485), FLit(0, -42, 50972444, 59652322), FLit(0, -52, 34987940, 48671287)>>,
     <<FLit(0, -41, 44040192, 0), FLit(0, -42, 41943040, 0), FLit(0, -52, 37794944, 50354329)>>,
     <<FLit(0, -41, 46137344, 0), FLit(1, -42, 37748736, 0), FLit(0, -52, 65736992, 74696771)>>,
     <<FLit(0, -41, 48234496, 0), FLit(0, -43, 33554432, 0), FLit(0, -52, 46929413, 74672646)>>,
     <<FLit(0, -41, 50331648, 0), FLit(0, -42, 62914560, 0), FLit(0, -52, 33963695, 106212798)>>,
     <<FLit(0, -41, 52428800, 0), FLit(0, -41, 37748736, 0), FLit(0, -53, 63536878, 116970254)>>,
     <<FLit(0, -41, 56623104, 0), FLit(0, -42, 58720256, 0), FLit(0, -52, 36656334, 54030595)>>,
     <<FLit(0, -41, 62914560, 0), FLit(1, -43, 58720256, 0), FLit(0, -52, 60398925, 114173735)>>,
     <<FLit(0, -41, 62914560, 0), FLit(0, -43, 58720256, 0), FLit(0, -52, 45015431, 28979978)>>,
     <<FLit(0, -29, 43342065, 37580963), FLit(1, -32, 51429580, 107374184), FLit(0, -52, 57648104, 133658181)>>}

\* std::cos(t) as <<t, value>>, t > 0
CosValues ==
    {<<FLit(0, -58, 53642418, 127049510), FLit(0, -53, 67087928, 60973922)>>,
     <<FLit(0, -55, 52987967, 16197131), FLit(0, -53, 65805655, 27644834)>>,
     <<FLit(0, -54, 48764142, 2342313), FLit(0, -53, 62728111, 73407315)>>,
     <<FLit(0, -54, 63536878, 116970254), FLit(0, -53, 59728863, 12590405)>>,
     <<FLit(0, -53, 33963695, 106212798), FLit(0, -53, 58696263, 43300685)>>,
     <<FLit(0, -53, 34987940, 48671287), FLit(0, -53, 58192924, 105417554)>>,
     <<FLit(0, -53, 36656334, 54030595), FLit(0, -53, 57344066, 15715496)>>,
     <<FLit(0, -53, 36768462, 55421637), FLit(0, -53, 57285739, 106039511)>>,
     <<FLit(0, -53, 37794944, 50354329), FLit(0, -53, 56744375, 89608549)>>,
     <<FLit(0, -53, 44144678, 48265426), FLit(0, -53, 53105587, 30374468)>>,
     <<FLit(0, -53, 45015431, 28979978), FLit(0, -53, 52568768, 64766266)>>,
     <<FLit(0, -53, 46929413, 74672646), FLit(0, -53, 51357821, 79967835)>>,
     <<FLit(0, -53, 49093706, 11454204), FLit(0, -53, 49938235, 124663945)>>,
     <<FLit(0, -53, 52707178, 71576856), FLit(0, -53, 47453132, 109001677)>>,
     <<FLit(0, -53, 54569399, 47467198), FLit(0, -53, 46118244, 6097940)>>,
     <<FLit(0, -53, 54622491, 102682862), FLit(0, -53, 46079660, 58639485)>>,
     <<FLit(0, -53, 56967678, 49425015), FLit(0, -53, 44346929, 64988986)>>,
     <<FLit(0, -53, 57154869, 122169498), FLit(0, -53, 44206261, 93830139)>>,
     <<FLit(0, -53, 57648104, 133658181), FLit(0, -53, 43833968, 108392688)>>,
     <<FLit(0, -53, 60398925, 114173735), FLit(0, -53, 41714796, 3663662)>>,
     <<FLit(0, -53, 65736992, 74696771), FLit(0, -53, 37405807, 80581739)>>,
     <<FLit(0, -52, 35420323, 127949252), FLit(0, -54, 66128915, 71858858)>>,
     <<FLit(0, -52, 42301118, 125234048), FLit(0, -54, 40960221, 57279871)>>,
     <<FLit(0, -52, 50947635, 64262540), FLit(0, -57, 56279576, 80790104)>>,
     <<FLit(0, -52, 51114153, 33072341), FLit(0, -57, 50957661, 56195459)>>,
     <<FLit(0, -52, 52707178, 71576856), FLit(0, -106, 37012678, 51665927)>>}

\* std::sin(t) as <<t, value>>, t > 0
SinValues ==
    {<<FLit(0, -58, 53642418, 127049510), FLit(0, -58, 53636840, 89088348)>>,
     <<FLit(0, -55, 52987967, 16197131), FLit(0, -55, 52644524, 22115867)>>,
     <<FLit(0, -54, 48764142, 2342313), FLit(0, -54, 47698371, 637934)>>,
     <<FLit(0, -54, 63536878, 116970254), FLit(0, -54, 61190278, 45898241)>>,
     <<FLit(0, -53, 33963695, 106212798), FLit(0, -54, 65064531, 3177673)>>,
     <<FLit(0, -53, 34987940, 48671287), FLit(0, -54, 66848579, 14893388)>>,
     <<FLit(0, -53, 36656334, 54030595), FLit(0, -53, 34860546, 79141864)>>,
     <<FLit(0, -53, 36768462, 55421637), FLit(0, -53, 34956310, 67692652)>>,
     <<FLit(0, -53, 37794944, 50354329), FLit(0, -53, 35828416, 120609627)>>,
     <<FLit(0, -53, 44144678, 48265426), FLit(0, -53, 41029211, 126658809)>>,
     <<FLit(0, -53, 45015431, 28979978), FLit(0, -53, 41714796, 3663663)>>,
     <<FLit(0, -53, 46929413, 74672646), FLit(0, -53, 43196918, 98814059)>>,
     <<FLit(0, -53, 49093706, 11454204), FLit(0, -53, 44830483, 20470514)>>,
     <<FLit(0, -53, 52707178, 71576856), FLit(0, -53, 47453132, 109001676)>>,
     <<FLit(0, -53, 54569399, 47467198), FLit(0, -53, 48751484, 1836464)>>,
     <<FLit(0, -53, 54622491, 102682862), FLit(0, -53, 48787954, 90625577)>>,
     <<FLit(0, -53, 56967678, 49425015), FLit(0, -53, 50368139, 61781959)>>,
     <<FLit(0, -53, 57154869, 122169498), FLit(0, -53, 50491643, 54656527)>>,
     <<FLit(0, -53, 57648104, 133658181), FLit(0, -53, 50815182, 111268031)>>,
     <<FLit(0, -53, 60398925, 114173735), FLit(0, -53, 52568768, 64766266)>>,
     <<FLit(0, -53, 65736992, 74696771), FLit(0, -53, 55717189, 42242745)>>,
     <<FLit(0, -52, 35420323, 127949252), FLit(0, -53, 58398127, 26190159)>>,
     <<FLit(0, -52, 42301118, 125234048), FLit(0, -53, 63907469, 103488951)>>,
     <<FLit(0, -52, 50947635, 64262540), FLit(0, -53, 67016617, 53231115)>>,
     <<FLit(0, -52, 51114153, 33072341), FLit(0, -53, 67033247, 130180492)>>,
     <<FLit(0, -52, 52707178, 71576856), FLit(0, -52, 33554432, 0)>>}

\* std::atan2, std::cos and std::sin: the values fixed by the C standard for
\* zero arguments, and for the other arguments that occur the values of the C
\* library (glibc, x86-64), which are the correctly rounded ones
atan2(y, x) ==
    IF IsNaN(y) \/ IsNaN(x) THEN NaN
    ELSE IF IsZero(y)
         THEN (IF x.s = 0 THEN Zero(y.s) ELSE [Pi EXCEPT !.s = y.s])
    ELSE IF IsZero(x) THEN [HalfPi EXCEPT !.s = y.s]
    ELSE (CHOOSE v \in Atan2Values : v[1] = y /\ v[2] = x)[3]

cos(t) ==
    IF IsNaN(t) THEN NaN
    ELSE IF IsZero(t) THEN FInt(1)
    ELSE (CHOOSE v \in CosValues : v[1] = FAbs(t))[2]

sin(t) ==
    IF IsNaN(t) THEN NaN
    ELSE IF IsZero(t) THEN t
    ELSE [(CHOOSE v \in SinValues : v[1] = FAbs(t))[2] EXCEPT !.s = t.s]

\* var1 = mxx * cos_t * cos_t + myy * sin_t * sin_t + 2 * mxy * cos_t * sin_t
variance1(mxx, myy, mxy, cos_t, sin_t) ==
    FAdd(FAdd(FMul(FMul(mxx, cos_t), cos_t), FMul(FMul(myy, sin_t), sin_t)),
         FMul(FMul(FMul(FInt(2), mxy), cos_t), sin_t))

\* var2 = mxx * sin_t * sin_t + myy * cos_t * cos_t - 2 * mxy * cos_t * sin_t
variance2(mxx, myy, mxy, cos_t, sin_t) ==
    FSub(FAdd(FMul(FMul(mxx, sin_t), sin_t), FMul(FMul(myy, cos_t), cos_t)),
         FMul(FMul(FMul(FInt(2), mxy), cos_t), sin_t))

\* the axis without the factor 2
axisOneDeviation(v) == FSqrt(FAbs(v))

\* 2 * std::sqrt(std::abs(v))
axis(v) == FMul(FInt(2), FSqrt(FAbs(v)))

\* the last test without the bound on the axes
unfitUnbounded(a_axis, b_axis, theta) ==
    \/ IsNaN(a_axis) \/ IsNaN(b_axis) \/ IsNaN(theta)
    \/ FLe(a_axis, Zero(0)) \/ FLe(b_axis, Zero(0))

\* the last test of FitEllipse: the ellipse is not returned
unfit(a_axis, b_axis, theta) ==
    \/ IsNaN(a_axis) \/ IsNaN(b_axis) \/ IsNaN(theta)
    \/ FLe(a_axis, Zero(0)) \/ FLe(b_axis, Zero(0))
    \/ FGt(a_axis, AxisMax) \/ FGt(b_axis, AxisMax)

\* no call has been kept
NoEarlier == [op |-> "none"]

----------------------------------------------------------------------------
(* A call of FitEllipse, step by step.  The matrices D1, S1, S2, S3inv, T, M
   and C (lines 129-203) are computed and never read; of that part only S3
   and det_S3, which decide the return at line 164, are kept. *)

\* FitEllipse is entered: too few points return at once, otherwise the means
\* are computed
EllipseEnter(pts) ==
    /\ stage = "idle"
    /\ sample' = pts
    /\ IF tooFewForEllipse(pts)
       THEN /\ shape' = EllipseShapeDefault
            /\ ell' = ell
            /\ stage' = "done"
       ELSE /\ \E sum \in {sumCoordinates(pts, 1, Zero(0), Zero(0))} :
                  ell' = [ell EXCEPT !.mean_x = FDiv(sum[1], FInt(Len(pts))),
                                     !.mean_y = FDiv(sum[2], FInt(Len(pts)))]
            /\ shape' = shape
            /\ stage' = "variance"
    /\ UNCHANGED <<gridVars, fitVars, transformVars, earlier, appVars>>

\* the next point is added to var_x, var_y and covar
AddVariance ==
    /\ stage = "variance"
    /\ ell.i < Len(sample)
    /\ \E dx \in {FSub(FInt(sample[ell.i + 1].x), ell.mean_x)} :
       \E dy \in {FSub(FInt(sample[ell.i + 1].y), ell.mean_y)} :
          ell' = [ell EXCEPT !.var_x = FAdd(@, FMul(dx, dx)),
                             !.var_y = FAdd(@, FMul(dy, dy)),
                             !.covar = FAdd(@, FMul(dx, dy)),
                             !.i = @ + 1]
    /\ UNCHANGED <<sample, stage, shape>>
    /\ UNCHANGED <<gridVars, fitVars, transformVars, earlier, appVars>>

\* det and the test on it
CollinearityCheck ==
    /\ stage = "variance"
    /\ ell.i >= Len(sample)
    /\ \E det \in {FSub(FMul(ell.var_x, ell.var_y), FMul(ell.covar, ell.covar))} :
          IF FLt(FAbs(det), CollinearMin)
          THEN /\ ell' = [ell EXCEPT !.det = det, !.rejected = "det"]
               /\ shape' = EllipseShapeDefault
               /\ stage' = "done"
          ELSE /\ ell' = [ell EXCEPT !.det = det]
               /\ shape' = shape
               /\ stage' = "scatter"
    /\ UNCHANGED sample
    /\ UNCHANGED <<gridVars, fitVars, transformVars, earlier, appVars>>

\* S3, det_S3 and the test on it; then mx and my
ScatterCheck ==
    /\ stage = "scatter"
    /\ \E S3 \in {[i \in 0 .. 2 |->
                    [j \in 0 .. 2 |-> sumScatter(sample, i, j, 1, Zero(0))]]} :
       \E det_S3 \in {determinant3(S3)} :
          IF FLt(FAbs(det_S3), ScatterMin)
          THEN /\ ell' = [ell EXCEPT !.det_S3 = det_S3, !.rejected = "det_S3"]
               /\ shape' = EllipseShapeDefault
               /\ stage' = "done"
          ELSE /\ \E m \in {sumCoordinates(sample, 1, Zero(0), Zero(0))} :
                     ell' = [ell EXCEPT !.det_S3 = det_S3,
                                        !.mx = FDiv(m[1], FInt(Len(sample))),
                                        !.my = FDiv(m[2], FInt(Len(sample))),
                                        !.i = 0]
               /\ shape' = shape
               /\ stage' = "moments"
    /\ UNCHANGED sample
    /\ UNCHANGED <<gridVars, fitVars, transformVars, earlier, appVars>>

\* the next point is added to mxx, myy and mxy
AddCovariance ==
    /\ stage = "moments"
    /\ ell.i < Len(sample)
    /\ \E dx \in {FSub(FInt(sample[ell.i + 1].x), ell.mx)} :
       \E dy \in {FSub(FInt(sample[ell.i + 1].y), ell.my)} :
          ell' = [ell EXCEPT !.mxx = FAdd(@, FMul(dx, dx)),
                             !.myy = FAdd(@, FMul(dy, dy)),
                             !.mxy = FAdd(@, FMul(dx, dy)),
                             !.i = @ + 1]
    /\ UNCHANGED <<sample, stage, shape>>
    /\ UNCHANGED <<gridVars, fitVars, transformVars, earlier, appVars>>

\* the moments are divided by n; theta, var1, var2 and the axes; the axes are
\* put in order, the last test is made and the ellipse returned
ComputeEllipse ==
    /\ stage = "moments"
    /\ ell.i >= Len(sample)
    /\ \E mxx \in {FDiv(ell.mxx, FInt(Len(sample)))} :
       \E myy \in {FDiv(ell.myy, FInt(Len(sample)))} :
       \E mxy \in {FDiv(ell.mxy, FInt(Len(sample)))} :
       \E theta \in {FMul(Half, atan2(FMul(FInt(2), mxy), FSub(mxx, myy)))} :
       \E cos_t \in {cos(theta)} :
       \E sin_t \in {sin(theta)} :
       \E var1 \in {variance1(mxx, myy, mxy, cos_t, sin_t)} :
       \E var2 \in {variance2(mxx, myy, mxy, cos_t, sin_t)} :
       \E a \in {axis(var1)} :
       \E b \in {axis(var2)} :
       \E swap \in {FGt(b, a)} :
       \E a_axis \in {IF swap THEN b ELSE a} :
       \E b_axis \in {IF swap THEN a ELSE b} :
       \E angle \in {IF swap THEN FAdd(theta, HalfPi) ELSE theta} :
          /\ ell' = [ell EXCEPT !.mxx = mxx, !.myy = myy, !.mxy = mxy,
                                !.theta = angle, !.var1 = var1, !.var2 = var2,
                                !.a_axis = a_axis, !.b_axis = b_axis,
                                !.swapped = swap,
                                !.rejected = IF unfit(a_axis, b_axis, angle)
                                             THEN "axes" ELSE "none"]
          /\ shape' = IF unfit(a_axis, b_axis, angle) THEN EllipseShapeDefault
                      ELSE EllipseShape([x |-> ell.mx, y |-> ell.my],
                                        a_axis, b_axis, angle)
    /\ stage' = "done"
    /\ UNCHANGED sample
    /\ UNCHANGED <<gridVars, fitVars, transformVars, earlier, appVars>>

\* the caller has taken the result
EllipseReturn ==
    /\ stage = "done"
    /\ stage' = "idle"
    /\ sample' = <<>>
    /\ ell' = NoEllipseLocals
    /\ shape' = EllipseShapeDefault
    /\ UNCHANGED <<gridVars, fitVars, transformVars>>

----------------------------------------------------------------------------
(* The caller of the Problem1 API *)

\* the circles a caller may hold in its output parameters before the call
OutCircles == {DefaultCircle, [cx |-> Den, cy |-> Den, radiusSq |-> Den * Den]}

NoCall == [op |-> "none"]

Init ==
    /\ highlighted = [k \in Indices |-> FALSE]
    /\ theGrid = GridConstruct(GridN, WINDOW_WIDTH, WINDOW_HEIGHT, GRID_PADDING)
    /\ pc = "ready"
    /\ call = NoCall
    /\ before = [k \in Indices |-> FALSE]
    /\ ret = FALSE
    /\ innerCircle = DefaultCircle
    /\ outerCircle = DefaultCircle
    /\ points = <<>>
    /\ at = "idle"
    /\ fit = NoLocals
    /\ result = CircleDefault
    /\ transform = NoTransform
    /\ conv = NoConversion
    /\ sample = <<>>
    /\ stage = "idle"
    /\ ell = NoEllipseLocals
    /\ shape = EllipseShapeDefault
    /\ earlier = NoEarlier
    /\ selected = {}
    /\ gridCall = NoCall
    /\ showCircle = FALSE
    /\ bestFitCircle = CircleDefault
    /\ showEllipse = FALSE
    /\ bestFitEllipse = EllipseShapeDefault
    /\ event = NoCall
    /\ fitted = NoCall
    /\ lit = {}
    /\ isDragging = FALSE
    /\ dragStartCanvas = Point2D(Zero(0), Zero(0))
    /\ dragCurrentCanvas = Point2D(Zero(0), Zero(0))
    /\ hasRasterizedCircle = FALSE
    /\ userCircleGrid = CircleDefault
    /\ innerBoundGrid = CircleDefault
    /\ outerBoundGrid = CircleDefault
    /\ mouse = NoCall

CallRasterize(c) ==
    /\ pc = "ready"
    /\ highlighted' = rasterize(highlighted, c)
    /\ call' = [op |-> "rasterize", circle |-> c]
    /\ before' = highlighted
    /\ pc' = "called"
    /\ UNCHANGED <<theGrid, ret, innerCircle, outerCircle>>

CallRasterizeOptimized(c) ==
    /\ pc = "ready"
    /\ highlighted' = rasterizeOptimized(highlighted, c)
    /\ call' = [op |-> "rasterizeOptimized", circle |-> c]
    /\ before' = highlighted
    /\ pc' = "called"
    /\ UNCHANGED <<theGrid, ret, innerCircle, outerCircle>>

\* resetHighlights assigning GridPoint() to every point
CallResetPoints ==
    /\ pc = "ready"
    /\ highlighted' = resetHighlights(highlighted)
    /\ theGrid' = [theGrid EXCEPT !.points = [k \in DOMAIN @ |-> GridPointDefault]]
    /\ call' = [op |-> "resetHighlights"]
    /\ before' = highlighted
    /\ pc' = "called"
    /\ UNCHANGED <<ret, innerCircle, outerCircle>>

CallResetHighlights ==
    /\ pc = "ready"
    /\ highlighted' = resetHighlights(highlighted)
    /\ call' = [op |-> "resetHighlights"]
    /\ before' = highlighted
    /\ pc' = "called"
    /\ UNCHANGED <<theGrid, ret, innerCircle, outerCircle>>

CallCalculateBoundingCircles(cx, cy, inner, outer) ==
    /\ pc = "ready"
    /\ LET r == calculateBoundingCircles(highlighted, cx, cy, inner, outer)
       IN  /\ ret' = r.ret
           /\ innerCircle' = r.inner
           /\ outerCircle' = r.outer
    /\ call' = [op |-> "calculateBoundingCircles", cx |-> cx, cy |-> cy,
                inner |-> inner, outer |-> outer]
    /\ before' = highlighted
    /\ pc' = "called"
    /\ UNCHANGED <<highlighted, theGrid>>

\* the caller is done with the arguments and results of the call
Return ==
    /\ pc = "called"
    /\ pc' = "ready"
    /\ call' = NoCall
    /\ before' = [k \in Indices |-> FALSE]
    /\ ret' = FALSE
    /\ innerCircle' = DefaultCircle
    /\ outerCircle' = DefaultCircle
    /\ UNCHANGED <<highlighted, theGrid>>
    /\ UNCHANGED <<fitVars, transformVars, ellipseVars, earlier, appVars>>

\* a call is made only when the caller is ready for one
Call ==
    /\ pc = "ready"
    /\ UNCHANGED <<fitVars, transformVars, ellipseVars, earlier, appVars>>
    /\ \/ \E c \in Circles : CallRasterize(c)
       \/ \E c \in Circles : CallRasterizeOptimized(c)
       \/ CallResetHighlights
       \/ \E cx \in CenterCoords, cy \in CenterCoords,
             inner \in OutCircles, outer \in OutCircles :
             CallCalculateBoundingCircles(cx, cy, inner, outer)

Next == Call \/ Return

Spec == Init /\ [][Next]_vars

\* the calls of FitCircle
NextFit ==
    \/ \E pts \in FitInputs : FitCircleEnter(pts)
    \/ AddMoments
    \/ ComputeCoefficients
    \/ NewtonStep
    \/ DeterminantCheck
    \/ ComputeCircle
    \/ FitReturn /\ UNCHANGED <<earlier, appVars>>

SpecFit == Init /\ [][NextFit]_vars

NextTransform ==
    \/ \E c \in Configurations : TransformConstruct(c[1], c[2], c[3], c[4])
    \/ \E col, row \in 0 .. cells(transform.gridSize) : CallGridToCanvas(col, row)
    \/ CallCanvasToGrid
    \/ TransformRelease

SpecTransform == Init /\ [][NextTransform]_vars

NextEllipse ==
    \/ \E pts \in EllipseInputs : EllipseEnter(pts)
    \/ AddVariance
    \/ CollinearityCheck
    \/ ScatterCheck
    \/ AddCovariance
    \/ ComputeEllipse
    \/ EllipseReturn /\ UNCHANGED <<earlier, appVars>>

SpecEllipse == Init /\ [][NextEllipse]_vars

\* Calls of FitCircle and FitEllipse one after the other, as the one thread
\* of the program makes them.  earlier keeps the points and the returned
\* value of one call that has returned, and in last the function called
\* after it, if any.
PureCircleInputs ==
    { <<GetPixelCoords(0, 0), GetPixelCoords(0, 1)>>,
      <<GetPixelCoords(0, 0), GetPixelCoords(0, 1), GetPixelCoords(0, 2)>>,
      <<GetPixelCoords(0, 0), GetPixelCoords(1, 0), GetPixelCoords(1, 2)>>,
      <<GetPixelCoords(0, 2), GetPixelCoords(1, 3), GetPixelCoords(3, 5)>>,
      <<GetPixelCoords(1, 0), GetPixelCoords(3, 5), GetPixelCoords(9, 19)>> }

PureEllipseInputs ==
    {<<>>, RowSample, SlopeSample, FlatSample, ArcSample, FarSample}

\* the call that returns is kept, or it is a call made after the kept one
Kept(op, pts, value) ==
    \/ earlier' = [op |-> op, points |-> pts, result |-> value, last |-> "none"]
    \/ earlier' = IF earlier = NoEarlier THEN earlier
                  ELSE [earlier EXCEPT !.last = op]

NextPure ==
    \/ \E pts \in PureCircleInputs : stage = "idle" /\ FitCircleEnter(pts)
    \/ AddMoments
    \/ ComputeCoefficients
    \/ NewtonStep
    \/ DeterminantCheck
    \/ ComputeCircle
    \/ FitReturn /\ Kept("FitCircle", points, result) /\ UNCHANGED appVars
    \/ \E pts \in PureEllipseInputs : at = "idle" /\ EllipseEnter(pts)
    \/ AddVariance
    \/ CollinearityCheck
    \/ ScatterCheck
    \/ AddCovariance
    \/ ComputeEllipse
    \/ EllipseReturn /\ Kept("FitEllipse", sample, shape) /\ UNCHANGED appVars

SpecPure == Init /\ [][NextPure]_vars

\* The calls of the Problem2 Grid (extracredit/Grid.h has the same code)

\* pixel coordinates: both sides of each edge of the grid area, the centres
\* of the first two cells, and the pixels of one cell further to the left
PixelInputs == {-40, -39, -1, 0, 20, 60, 799, 800}

ToggleCells == 5         \* the first ToggleCells cells of Cells are toggled

\* cells of Cells and indices outside the grid on every side
ToggleInputs ==
    {Cells[k] : k \in 1 .. Min(ToggleCells, Len(Cells))}
        \cup {<<-1, 0>>, <<0, -1>>, <<GRID_SIZE, 0>>, <<0, GRID_SIZE>>,
              <<-1, GRID_SIZE>>}

CallPixelToGrid(x, y) ==
    /\ gridCall' = [op |-> "PixelToGrid", x |-> x, y |-> y,
                    ret |-> PixelToGrid(x, y).ret,
                    i |-> PixelToGrid(x, y).i, j |-> PixelToGrid(x, y).j,
                    before |-> selected]
    /\ UNCHANGED selected
    /\ UNCHANGED <<gridVars, fitVars, transformVars, ellipseVars, earlier, shownVars,
                   dragVars>>

CallTogglePoint(i, j) ==
    /\ selected' = TogglePoint(selected, i, j)
    /\ gridCall' = [op |-> "TogglePoint", i |-> i, j |-> j, before |-> selected]
    /\ UNCHANGED <<gridVars, fitVars, transformVars, ellipseVars, earlier, shownVars,
                   dragVars>>

CallIsSelected(i, j) ==
    /\ gridCall' = [op |-> "IsSelected", i |-> i, j |-> j,
                    ret |-> IsSelected(selected, i, j), before |-> selected]
    /\ UNCHANGED selected
    /\ UNCHANGED <<gridVars, fitVars, transformVars, ellipseVars, earlier, shownVars,
                   dragVars>>

CallClear ==
    /\ selected' = Clear(selected)
    /\ gridCall' = [op |-> "Clear", before |-> selected]
    /\ UNCHANGED <<gridVars, fitVars, transformVars, ellipseVars, earlier, shownVars,
                   dragVars>>

CallGetSelectedPoints ==
    /\ gridCall' = [op |-> "GetSelectedPoints",
                    ret |-> selectedPoints(selected),
                    before |-> selected]
    /\ UNCHANGED selected
    /\ UNCHANGED <<gridVars, fitVars, transformVars, ellipseVars, earlier, shownVars,
                   dragVars>>

NextSelect ==
    \/ \E x \in PixelInputs, y \in PixelInputs : CallPixelToGrid(x, y)
    \/ \E c \in ToggleInputs : CallTogglePoint(c[1], c[2])
    \/ \E c \in ToggleInputs : CallIsSelected(c[1], c[2])
    \/ CallClear
    \/ CallGetSelectedPoints

SpecSelect == Init /\ [][NextSelect]_vars

\* The Applications of Problem2 (main.cpp) and extracredit (main.cpp).  One of
\* the two programs runs, and the window procedure runs one handler from its
\* first to its last statement before it takes the next message.

Running(program) == IF event = NoCall THEN TRUE ELSE event.program = program

Idle == at = "idle" /\ stage = "idle"

\* the pixels clicked in Problem2: the centres of the cells (0, 0), (0, 1),
\* (0, 2), (1, 0), a corner pixel of cell (0, 0) and a pixel right of the grid
CirclePixels ==
    {<<20, 20>>, <<60, 20>>, <<100, 20>>, <<20, 60>>, <<39, 0>>, <<800, 20>>}

\* the pixels clicked in extracredit: the centres of the cells (0, 0), (3, 0),
\* (3, 1), (3, 2), (3, 3), (3, 4) and a pixel below the grid
EllipsePixels ==
    {<<20, 20>>, <<20, 140>>, <<60, 140>>, <<100, 140>>, <<140, 140>>,
     <<180, 140>>, <<20, 800>>}

\* OnMouseDown that leaves showCircle as it is
OnMouseDownCircleShown(x, y) ==
    /\ Running("Problem2") /\ Idle
    /\ IF PixelToGrid(x, y).ret
       THEN selected' = TogglePoint(selected, PixelToGrid(x, y).i,
                                    PixelToGrid(x, y).j)
       ELSE UNCHANGED selected
    /\ event' = [program |-> "Problem2", op |-> "OnMouseDown",
                 hit |-> PixelToGrid(x, y).ret]
    /\ UNCHANGED <<gridCall, showCircle, bestFitCircle, showEllipse, bestFitEllipse,
                   fitted>>
    /\ UNCHANGED <<gridVars, fitVars, transformVars, ellipseVars, earlier, dragVars>>

\* Problem2 Application::OnMouseDown(x, y)
OnMouseDownCircle(x, y) ==
    /\ Running("Problem2") /\ Idle
    /\ IF PixelToGrid(x, y).ret
       THEN /\ selected' = TogglePoint(selected, PixelToGrid(x, y).i,
                                       PixelToGrid(x, y).j)
            /\ showCircle' = FALSE
       ELSE UNCHANGED <<selected, showCircle>>
    /\ event' = [program |-> "Problem2", op |-> "OnMouseDown",
                 hit |-> PixelToGrid(x, y).ret]
    /\ UNCHANGED <<gridCall, bestFitCircle, showEllipse, bestFitEllipse, fitted>>
    /\ UNCHANGED <<gridVars, fitVars, transformVars, ellipseVars, earlier, dragVars>>

\* Problem2 Application::GenerateCircle with fewer than 3 points selected
GenerateCircleFew ==
    /\ Running("Problem2") /\ Idle
    /\ Len(selectedPoints(selected)) < 3
    /\ showCircle' = FALSE
    /\ event' = [program |-> "Problem2", op |-> "GenerateCircle"]
    /\ UNCHANGED <<selected, gridCall, bestFitCircle, showEllipse, bestFitEllipse,
                   fitted>>
    /\ UNCHANGED <<gridVars, fitVars, transformVars, ellipseVars, earlier, dragVars>>

\* GenerateCircle with 3 points or more: FitCircle is called
GenerateCircleCall ==
    /\ Running("Problem2") /\ Idle
    /\ Len(selectedPoints(selected)) >= 3
    /\ FitCircleEnter(selectedPoints(selected))

\* FitCircle has returned: the rest of GenerateCircle
GenerateCircleDone ==
    /\ Running("Problem2")
    /\ FitReturn
    /\ bestFitCircle' = result
    /\ showCircle' = FGt(result.radius, Zero(0))
    /\ fitted' = [points |-> points, returned |-> result]
    /\ event' = [program |-> "Problem2", op |-> "GenerateCircle"]
    /\ UNCHANGED <<selected, gridCall, showEllipse, bestFitEllipse, earlier, dragVars>>

\* Problem2 Application::Clear
ClearCircle ==
    /\ Running("Problem2") /\ Idle
    /\ selected' = Clear(selected)
    /\ showCircle' = FALSE
    /\ event' = [program |-> "Problem2", op |-> "Clear"]
    /\ UNCHANGED <<gridCall, bestFitCircle, showEllipse, bestFitEllipse, fitted>>
    /\ UNCHANGED <<gridVars, fitVars, transformVars, ellipseVars, earlier, dragVars>>

\* extracredit Application::OnMouseDown(x, y)
OnMouseDownEllipse(x, y) ==
    /\ Running("extracredit") /\ Idle
    /\ IF PixelToGrid(x, y).ret
       THEN /\ selected' = TogglePoint(selected, PixelToGrid(x, y).i,
                                       PixelToGrid(x, y).j)
            /\ showEllipse' = FALSE
       ELSE UNCHANGED <<selected, showEllipse>>
    /\ event' = [program |-> "extracredit", op |-> "OnMouseDown",
                 hit |-> PixelToGrid(x, y).ret]
    /\ UNCHANGED <<gridCall, showCircle, bestFitCircle, bestFitEllipse, fitted>>
    /\ UNCHANGED <<gridVars, fitVars, transformVars, ellipseVars, earlier, dragVars>>

\* extracredit Application::GenerateEllipse with fewer than 5 points selected
GenerateEllipseFew ==
    /\ Running("extracredit") /\ Idle
    /\ Len(selectedPoints(selected)) < 5
    /\ showEllipse' = FALSE
    /\ event' = [program |-> "extracredit", op |-> "GenerateEllipse"]
    /\ UNCHANGED <<selected, gridCall, showCircle, bestFitCircle, bestFitEllipse,
                   fitted>>
    /\ UNCHANGED <<gridVars, fitVars, transformVars, ellipseVars, earlier, dragVars>>

\* GenerateEllipse with 5 points or more: FitEllipse is called
GenerateEllipseCall ==
    /\ Running("extracredit") /\ Idle
    /\ Len(selectedPoints(selected)) >= 5
    /\ EllipseEnter(selectedPoints(selected))

\* FitEllipse has returned: the rest of GenerateEllipse
GenerateEllipseDone ==
    /\ Running("extracredit")
    /\ EllipseReturn
    /\ bestFitEllipse' = shape
    /\ showEllipse' = shape.valid
    /\ fitted' = [points |-> sample, returned |-> shape]
    /\ event' = [program |-> "extracredit", op |-> "GenerateEllipse"]
    /\ UNCHANGED <<selected, gridCall, showCircle, bestFitCircle, earlier, dragVars>>

\* extracredit Application::Clear
ClearEllipse ==
    /\ Running("extracredit") /\ Idle
    /\ selected' = Clear(selected)
    /\ showEllipse' = FALSE
    /\ event' = [program |-> "extracredit", op |-> "Clear"]
    /\ UNCHANGED <<gridCall, showCircle, bestFitCircle, bestFitEllipse, fitted>>
    /\ UNCHANGED <<gridVars, fitVars, transformVars, ellipseVars, earlier, dragVars>>

NextShown ==
    \/ \E px \in CirclePixels : OnMouseDownCircle(px[1], px[2])
    \/ GenerateCircleFew
    \/ GenerateCircleCall
    \/ AddMoments
    \/ ComputeCoefficients
    \/ NewtonStep
    \/ DeterminantCheck
    \/ ComputeCircle
    \/ GenerateCircleDone
    \/ ClearCircle
    \/ \E px \in EllipsePixels : OnMouseDownEllipse(px[1], px[2])
    \/ GenerateEllipseFew
    \/ GenerateEllipseCall
    \/ AddVariance
    \/ CollinearityCheck
    \/ ScatterCheck
    \/ AddCovariance
    \/ ComputeEllipse
    \/ GenerateEllipseDone
    \/ ClearEllipse

SpecShown == Init /\ [][NextShown]_vars

\* The Application of Problem1 (main.cpp): the window procedure runs one
\* handler from its first to its last statement before it takes the next
\* message.

\* Point2D(x, y) of ints x and y
Pixel(x, y) == Point2D(FInt(x), FInt(y))

\* the pixels the mouse is moved to and released at
MousePixels ==
    {<<5, 0>>, <<50, 50>>, <<52, 50>>, <<68, 68>>, <<768, 768>>}

\* the pixel the mouse is moved to while the button is down
MovePixels == {<<68, 68>>}

\* the drags made, as the pixel the button is pressed at and the pixel it is
\* released at: from the corner of the window, from the grid point (0, 0),
\* from a pixel near the grid point (2, 1) and from the grid point (19, 19)
Drags ==
    {<<Pixel(0, 0), Pixel(5, 0)>>,
     <<Pixel(50, 50), Pixel(50, 50)>>, <<Pixel(50, 50), Pixel(52, 50)>>,
     <<Pixel(50, 50), Pixel(68, 68)>>,
     <<Pixel(124, 87), Pixel(50, 50)>>, <<Pixel(124, 87), Pixel(68, 68)>>,
     <<Pixel(750, 750), Pixel(768, 768)>>}

\* the pixels the button is pressed at
PressPixels == {<<0, 0>>, <<50, 50>>, <<124, 87>>, <<750, 750>>}

\* onMouseDown that leaves the grid as it is
onMouseDownNoReset(x, y) ==
    /\ hasRasterizedCircle' = FALSE
    /\ isDragging' = TRUE
    /\ dragStartCanvas' = Pixel(x, y)
    /\ dragCurrentCanvas' = Pixel(x, y)
    /\ mouse' = [op |-> "onMouseDown"]
    /\ UNCHANGED <<lit, userCircleGrid, innerBoundGrid, outerBoundGrid>>
    /\ UNCHANGED <<gridVars, fitVars, transformVars, ellipseVars, earlier, selectVars,
                   shownVars>>

\* Application::onMouseDown(x, y)
onMouseDown(x, y) ==
    /\ lit' = {k \in lit : FALSE}
    /\ hasRasterizedCircle' = FALSE
    /\ isDragging' = TRUE
    /\ dragStartCanvas' = Pixel(x, y)
    /\ dragCurrentCanvas' = Pixel(x, y)
    /\ mouse' = [op |-> "onMouseDown"]
    /\ UNCHANGED <<userCircleGrid, innerBoundGrid, outerBoundGrid>>
    /\ UNCHANGED <<gridVars, fitVars, transformVars, ellipseVars, earlier, selectVars,
                   shownVars>>

\* Application::onMouseMove(x, y)
onMouseMove(x, y) ==
    /\ dragCurrentCanvas' = IF isDragging THEN Pixel(x, y)
                            ELSE dragCurrentCanvas
    /\ mouse' = [op |-> "onMouseMove"]
    /\ UNCHANGED <<lit, isDragging, dragStartCanvas, hasRasterizedCircle,
                   userCircleGrid, innerBoundGrid, outerBoundGrid>>
    /\ UNCHANGED <<gridVars, fitVars, transformVars, ellipseVars, earlier, selectVars,
                   shownVars>>

\* Application::onMouseUp(x, y)
onMouseUp(x, y) ==
    /\ IF ~isDragging
       THEN UNCHANGED <<lit, isDragging, dragCurrentCanvas, hasRasterizedCircle,
                        userCircleGrid, innerBoundGrid, outerBoundGrid>>
       ELSE /\ isDragging' = FALSE
            /\ dragCurrentCanvas' = Pixel(x, y)
            /\ \E centerGrid \in {canvasToGrid(AppTransform, dragStartCanvas)} :
               \E edgeGrid \in {canvasToGrid(AppTransform, Pixel(x, y))} :
               \E radiusGrid \in {distanceTo(centerGrid, edgeGrid)} :
                  IF ~FGt(radiusGrid, MinRadius)
                  THEN UNCHANGED <<lit, hasRasterizedCircle, userCircleGrid,
                                   innerBoundGrid, outerBoundGrid>>
                  ELSE \E user \in {Circle(centerGrid.x, centerGrid.y, radiusGrid)} :
                       \E marks \in {rasterizeOptimized64(GRID_SIZE, lit, user)} :
                       \E b \in {calculateBoundingCircles64(GRID_SIZE, marks,
                                       centerGrid, innerBoundGrid, outerBoundGrid)} :
                          /\ userCircleGrid' = user
                          /\ lit' = marks
                          /\ innerBoundGrid' = b.inner
                          /\ outerBoundGrid' = b.outer
                          /\ hasRasterizedCircle' =
                                IF b.ret THEN TRUE ELSE hasRasterizedCircle
    /\ mouse' = [op |-> "onMouseUp"]
    /\ UNCHANGED dragStartCanvas
    /\ UNCHANGED <<gridVars, fitVars, transformVars, ellipseVars, earlier, selectVars,
                   shownVars>>

\* the button is released where a drag ends; a release without a press is
\* made at any pixel
NextDrag ==
    \/ \E px \in PressPixels : onMouseDown(px[1], px[2])
    \/ \E px \in MovePixels : onMouseMove(px[1], px[2])
    \/ \E px \in MousePixels :
          /\ isDragging => <<dragStartCanvas, Pixel(px[1], px[2])>> \in Drags
          /\ onMouseUp(px[1], px[2])

SpecDrag == Init /\ [][NextDrag]_vars

----------------------------------------------------------------------------
(* Claims about Problem1 *)

Called(op) == pc = "called" /\ call.op = op

\* ThresholdDen * sqrt(n) <= p, decided exactly: with p = ThresholdDen * a + b
\* the squares compare as ThresholdDen * (n - a^2) <= 2ab + b^2 / ThresholdDen
SqrtAtMost(n, p) ==
    /\ p >= 0
    /\ LET a == p \div ThresholdDen
           b == p % ThresholdDen
       IN  ThresholdDen * (n - a * a) <= 2 * a * b + (b * b) \div ThresholdDen

\* ThresholdDen * sqrt(n) >= p
SqrtAtLeast(n, p) ==
    \/ p <= 0
    \/ LET a == p \div ThresholdDen
           b == p % ThresholdDen
       IN  ThresholdDen * (n - a * a) >= 2 * a * b + Ceil(b * b, ThresholdDen)

\* |distance(gridPosition of point k, c.center) - c.radius| <= 0.7071
OnRing(k, c) ==
    LET n == distanceSquaredTo(gridX(k), gridY(k), c.cx, c.cy)
    IN  /\ SqrtAtMost(n, c.radius * ThresholdDen + Den * ThresholdNum)
        /\ SqrtAtLeast(n, c.radius * ThresholdDen - Den * ThresholdNum)

\* the points within the threshold of each circle's line
Ring == [c \in Circles |-> {k \in Indices : OnRing(k, c)}]

\* C1: after rasterize(grid, c) with c.radius > 0 a point is highlighted if
\* and only if its distance to the circle's boundary is at most 0.7071,
\* whatever the flags were before the call.
C1_RasterizeFlagsRing ==
    (Called("rasterize") /\ call.circle.radius > 0)
        => {k \in Indices : highlighted[k]} = Ring[call.circle]

\* a rasterize call that set one flag and cleared another
C1_Witness ==
    /\ Called("rasterize") /\ call.circle.radius > 0
    /\ \E k \in Indices : before[k] /\ ~highlighted[k]
    /\ \E k \in Indices : ~before[k] /\ highlighted[k]

\* C2: for a valid circle and any prior flags, rasterize and
\* rasterizeOptimized leave the same flags.
C2_OptimizedEquivalent ==
    (pc = "called" /\ call.op \in {"rasterize", "rasterizeOptimized"}
        /\ call.circle.radius > 0)
        => /\ highlighted = rasterize(before, call.circle)
           /\ highlighted = rasterizeOptimized(before, call.circle)

\* rasterizeOptimized of a circle centred outside the grid, whose box leaves
\* out a point that was highlighted before
C2_Witness ==
    /\ Called("rasterizeOptimized") /\ call.circle.radius > 0
    /\ call.circle.cx < 0
    /\ \E k \in Indices \ inBox(call.circle) : before[k]
    /\ \E k \in Indices : highlighted[k]

\* C3: rasterize and rasterizeOptimized of a circle with radius <= 0 change
\* no flag.
C3_InvalidCircleNoOp ==
    (pc = "called" /\ call.op \in {"rasterize", "rasterizeOptimized"}
        /\ call.circle.radius <= 0)
        => highlighted = before

\* rasterizeOptimized called with radius 0, centred on a grid point, on a grid
\* with highlighted points
C3_Witness ==
    /\ Called("rasterizeOptimized") /\ call.circle.radius = 0
    /\ \E k \in Indices : highlighted[k]
    /\ \E k \in Indices :
          distanceSquaredTo(gridX(k), gridY(k), call.circle.cx, call.circle.cy) = 0

\* C4: calculateBoundingCircles returns false when no point is highlighted
\* and then leaves innerCircle and outerCircle as they were.
C4_EmptyReturnsFalse ==
    (Called("calculateBoundingCircles") /\ \A k \in Indices : ~before[k])
        => /\ ret = FALSE
           /\ innerCircle = call.inner
           /\ outerCircle = call.outer

\* the call on an empty grid with circles other than Circle() passed in
C4_Witness ==
    /\ Called("calculateBoundingCircles")
    /\ \A k \in Indices : ~highlighted[k]
    /\ call.inner # DefaultCircle
    /\ call.outer # call.inner
    /\ ret = FALSE

\* the squared distances from (cx, cy) to the highlighted points
HighlightedDistances(h, cx, cy) ==
    {distanceSquaredTo(cx, cy, gridX(k), gridY(k)) : k \in {i \in Indices : h[i]}}

\* C5: with at least one highlighted point calculateBoundingCircles returns
\* true, innerCircle = Circle(center, least distance to a highlighted point),
\* outerCircle = Circle(center, greatest such distance); so inner radius <=
\* outer radius, and with one highlighted point both are its distance.
C5_BoundingCircles ==
    (Called("calculateBoundingCircles") /\ \E k \in Indices : before[k])
        => LET D == HighlightedDistances(before, call.cx, call.cy)
           IN  /\ ret = TRUE
               /\ innerCircle.cx = call.cx /\ innerCircle.cy = call.cy
               /\ outerCircle.cx = call.cx /\ outerCircle.cy = call.cy
               /\ innerCircle.radiusSq \in D
               /\ outerCircle.radiusSq \in D
               /\ \A d \in D : innerCircle.radiusSq <= d /\ d <= outerCircle.radiusSq
               /\ innerCircle.radiusSq <= outerCircle.radiusSq
               /\ Cardinality({k \in Indices : before[k]}) = 1
                     => innerCircle.radiusSq = outerCircle.radiusSq

\* the call with several highlighted points at different distances, the
\* first point of the grid among them
C5_Witness ==
    /\ Called("calculateBoundingCircles")
    /\ highlighted[0]
    /\ ret = TRUE
    /\ 0 < innerCircle.radiusSq
    /\ innerCircle.radiusSq < outerCircle.radiusSq

\* the circle line meets the square [0, GridN-1] x [0, GridN-1]: the radius
\* lies between the least and the greatest distance from the centre to it
IntersectsGridBox(c) ==
    LET L == (GridN - 1) * Den
        nx == Max(0, Max(-c.cx, c.cx - L))
        ny == Max(0, Max(-c.cy, c.cy - L))
        fx == Max(Abs(c.cx), Abs(c.cx - L))
        fy == Max(Abs(c.cy), Abs(c.cy - L))
    IN  /\ nx * nx + ny * ny <= c.radius * c.radius
        /\ c.radius * c.radius <= fx * fx + fy * fy

\* C6: a circle with radius > 0.7071 that meets the grid's bounding box gets
\* at least one point flagged by rasterize.
C6_NoEmptyRing ==
    (Called("rasterize")
        /\ call.circle.radius * ThresholdDen > Den * ThresholdNum
        /\ IntersectsGridBox(call.circle))
        => \E k \in Indices : highlighted[k]

\* rasterize of a circle centred outside the grid that touches the box and
\* passes through no grid point
C6_Witness ==
    /\ Called("rasterize")
    /\ call.circle.radius * ThresholdDen > Den * ThresholdNum
    /\ IntersectsGridBox(call.circle)
    /\ call.circle.cx < 0
    /\ \A k \in Indices :
          distanceSquaredTo(gridX(k), gridY(k), call.circle.cx, call.circle.cy)
              # call.circle.radius * call.circle.radius
    /\ \E k \in Indices : ~highlighted[k]

----------------------------------------------------------------------------
(* Claims about FitCircle *)

Returned == at = "done"

Invalid(c) == c = CircleDefault

\* the points lie on one line, decided exactly on the integer coordinates
Collinear(pts) ==
    \A i, j, k \in 1 .. Len(pts) :
        (pts[j].x - pts[i].x) * (pts[k].y - pts[i].y)
            = (pts[j].y - pts[i].y) * (pts[k].x - pts[i].x)

\* C7: FitCircle called with fewer than 3 points returns the invalid circle
\* at once: it is at its return with no local computed, never in the loop
C7_TooFewPoints ==
    (at # "idle" /\ Len(points) < 3) =>
        /\ at = "done"
        /\ Invalid(result)
        /\ fit = NoLocals

C7_Witness == at = "done" /\ Len(points) = 2 /\ Invalid(result)

\* C8: FitCircle called with 3 or more exactly collinear points (all points
\* identical included) returns the invalid circle
C8_CollinearInvalid ==
    (Returned /\ Len(points) >= 3 /\ Collinear(points)) => Invalid(result)

\* the exact circle through the first three points, in cells from the first
\* point: centre (ux / d, uy / d), radius sqrt(ux^2 + uy^2) / |d|; d = 0 when
\* the three are collinear
Rel(pts, k) ==
    [x |-> (pts[k].x - pts[1].x) \div CELL_SIZE,
     y |-> (pts[k].y - pts[1].y) \div CELL_SIZE]

Circum(pts) ==
    LET b == Rel(pts, 2)
        c == Rel(pts, 3)
    IN  [d |-> 2 * (b.x * c.y - b.y * c.x),
         ux |-> c.y * (b.x * b.x + b.y * b.y) - b.y * (c.x * c.x + c.y * c.y),
         uy |-> b.x * (c.x * c.x + c.y * c.y) - c.x * (b.x * b.x + b.y * b.y)]

\* three or more distinct points, all exactly on one circle
OnCommonCircle(pts) ==
    /\ Len(pts) >= 3
    /\ \A i, j \in 1 .. Len(pts) : i # j => pts[i] # pts[j]
    /\ Circum(pts).d # 0
    /\ \A k \in 1 .. Len(pts) :
          LET p == Rel(pts, k)
              u == Circum(pts)
          IN  u.d * (p.x * p.x + p.y * p.y) = 2 * (u.ux * p.x + u.uy * p.y)

\* the radius of that circle is at most 10000 pixels:
\* (ux^2 + uy^2) / d^2 <= (10000 / CELL_SIZE)^2
RadiusInRange(pts) ==
    LET u == Circum(pts)
        s == u.ux * u.ux + u.uy * u.uy
        lim == (10000 \div CELL_SIZE) * (10000 \div CELL_SIZE)
    IN  \/ s \div (u.d * u.d) < lim
        \/ s \div (u.d * u.d) = lim /\ s % (u.d * u.d) = 0

\* that circle in pixels; each value is within 1e-9 of the exact one
Reference(pts) ==
    LET scaled(u, d, cell) ==
            Circle(FAdd(FInt(pts[1].x), FMul(cell, FDiv(FInt(u.ux), d))),
                   FAdd(FInt(pts[1].y), FMul(cell, FDiv(FInt(u.uy), d))),
                   FDiv(FMul(cell, FSqrt(FInt(u.ux * u.ux + u.uy * u.uy))), FAbs(d)))
        exact(u) == scaled(u, FInt(u.d), FInt(CELL_SIZE))
    IN  exact(Circum(pts))

Tolerance == FLit(0, -72, 35149187, 96199640)      \* 1e-6 - 1e-9

Near(a, b) == FLe(FAbs(FSub(a, b)), Tolerance)

Matches(c, ref) ==
    /\ ~Invalid(c)
    /\ Near(c.center.x, ref.center.x)
    /\ Near(c.center.y, ref.center.y)
    /\ Near(c.radius, ref.radius)

Recovered(pts, c) == Matches(c, Reference(pts))

\* C9 as stated: FitCircle called with 3 or more distinct points exactly on
\* a circle returns a valid circle with the centre and the radius of that
\* circle to within 1e-6, whatever the circle
C9_ExactCircle ==
    (Returned /\ OnCommonCircle(points)) => Recovered(points, result)

\* C9: FitCircle called with 3 or more distinct pixel centres of grid cells
\* exactly on a circle of radius at most 10000 returns a valid circle with
\* the centre and the radius of that circle to within 1e-6
C9_ExactCircleInRange ==
    (Returned /\ OnCommonCircle(points) /\ RadiusInRange(points)) =>
        Recovered(points, result)

C9_Witness ==
    /\ Returned
    /\ OnCommonCircle(points)
    /\ RadiusInRange(points)
    /\ fit.exit = "cap"
    /\ Recovered(points, result)

\* the Newton loop ended with xnew set to 0 by one of its fallbacks
Fallbacks == {"increase", "negative", "cap"}

ForcedToZero == Returned /\ fit.exit \in Fallbacks

\* C10 as stated: when the Newton loop ends with xnew forced to 0 by a
\* fallback, the test on DET fails and FitCircle returns the invalid circle
C10_FallbackInvalid ==
    ForcedToZero => (fit.rejected = "det" /\ Invalid(result))

\* C10: when the Newton loop ends with xnew forced to 0 by a fallback, xnew
\* is 0 and DET is Cov_xy, and the test on DET fails, FitCircle returning
\* the invalid circle there, exactly when |Cov_xy| < 1e-10
C10_FallbackDeterminant ==
    ForcedToZero =>
        /\ fit.xnew = Zero(0)
        /\ fit.DET = fit.Cov_xy
        /\ fit.rejected = "det" <=> FLt(FAbs(fit.Cov_xy), DetMin)
        /\ fit.rejected = "det" => Invalid(result)

C10_Witness ==
    /\ ForcedToZero
    /\ fit.exit = "negative"
    /\ fit.rejected = "none"
    /\ ~Invalid(result)

\* a finite double
Finite(f) == ~IsNaN(f) /\ ~IsInf(f)

\* C11: every Circle FitCircle returns is the invalid circle (centre (0, 0),
\* radius 0) or has a finite centre and a radius r with 0 < r <= 10000
C11_ReturnedCircle ==
    Returned =>
        \/ Invalid(result)
        \/ /\ Finite(result.center.x) /\ Finite(result.center.y)
           /\ Finite(result.radius)
           /\ FGt(result.radius, Zero(0))
           /\ FLe(result.radius, RadiusMax)

C11_Witness == Returned /\ fit.rejected = "sanity" /\ Invalid(result)

\* C19: when the Newton loop is left, the xnew that DET is computed from is
\* not negative; a pass that made xnew negative has set it to 0, and a pass
\* that left by the convergence test has left a xnew that is not negative
C19_RootNotNegative ==
    (at = "det" /\ fit.exit # "none") =>
        /\ ~FLt(fit.xnew, Zero(0))
        /\ fit.exit = "negative" => fit.xnew = Zero(0)

C19_Witness == at = "det" /\ fit.exit = "negative" /\ fit.xnew = Zero(0)

\* C20: the Newton loop makes at most IterMax = 20 passes: every pass that
\* does not leave the loop adds one to iter, the loop is only run with
\* iter < IterMax, and when all passes were made without a break the loop
\* is left with xnew = 0
C20_NewtonBounded ==
    /\ fit.iter <= IterMax
    /\ at = "newton" => fit.iter < IterMax /\ fit.exit = "none"
    /\ fit.exit = "none" =>
          \/ at \in {"idle", "moments", "newton"}
          \/ at = "done" /\ Len(points) < 3
    /\ fit.exit = "cap" => fit.iter = IterMax /\ fit.xnew = Zero(0)
    /\ fit.exit \in {"increase", "converged", "negative"} => fit.iter < IterMax

C20_Witness == fit.exit = "cap" /\ at = "det" /\ fit.iter = IterMax

----------------------------------------------------------------------------
(* Claims about CoordinateTransform *)

RoundTripTolerance == FLit(0, -92, 36893488, 19786257)       \* 1e-12

\* C16, as stated: canvasToGrid(gridToCanvas((col, row))) is (col, row)
C16_RoundTrip ==
    conv.op = "canvasToGrid" => conv.back = conv.grid

\* C16: canvasToGrid(gridToCanvas((col, row))) is (col, row) to within 1e-12
\* in each coordinate, for every grid index pair, and it is (0, 0) exactly
\* for the pair (0, 0)
C16_RoundTripNear ==
    conv.op = "canvasToGrid" =>
        /\ FLe(FAbs(FSub(conv.back.x, conv.grid.x)), RoundTripTolerance)
        /\ FLe(FAbs(FSub(conv.back.y, conv.grid.y)), RoundTripTolerance)
        /\ conv.grid = Point2D(Zero(0), Zero(0)) => conv.back = conv.grid

C16_Witness ==
    /\ conv.op = "canvasToGrid"
    /\ transform.gridSize = 20
    /\ conv.grid = Point2D(FInt(1), FInt(19))
    /\ conv.back.x # conv.grid.x
    /\ conv.back.y = conv.grid.y

\* C17: the constructor sets gridSpacing to (min(canvasWidth, canvasHeight)
\* - 2 * padding) / (gridSize - 1), and gridOrigin so that gridOrigin.x +
\* gridSpacing * (gridSize - 1) / 2 is canvasWidth / 2, and likewise for y;
\* 700 / 19 and (50, 50) for the arguments 20, 800, 800, 50
C17_Constructed ==
    conv.op = "construct" =>
        /\ transform.gridSize = conv.gridSz
        /\ transform.gridSpacing
             = FDiv(FInt(Min(conv.canvasWidth, conv.canvasHeight) - 2 * conv.padding),
                    FInt(conv.gridSz - 1))
        /\ FAdd(transform.gridOrigin.x,
                FDiv(FMul(transform.gridSpacing, FInt(conv.gridSz - 1)), FInt(2)))
             = FDiv(FInt(conv.canvasWidth), FInt(2))
        /\ FAdd(transform.gridOrigin.y,
                FDiv(FMul(transform.gridSpacing, FInt(conv.gridSz - 1)), FInt(2)))
             = FDiv(FInt(conv.canvasHeight), FInt(2))
        /\ <<conv.gridSz, conv.canvasWidth, conv.canvasHeight, conv.padding>>
                = <<20, 800, 800, 50>> =>
              /\ transform.gridSpacing = FDiv(FInt(700), FInt(19))
              /\ transform.gridOrigin = Point2D(FInt(50), FInt(50))

C17_Witness ==
    /\ conv.op = "construct"
    /\ conv.gridSz = 8 /\ conv.canvasWidth = 800 /\ conv.canvasHeight = 600
    /\ transform.gridOrigin = Point2D(FInt(150), FInt(50))

----------------------------------------------------------------------------
(* Claims about FitEllipse *)

\* a call has reached a return statement and the caller has not yet taken
\* the result
EllipseReturned == stage = "done"

\* C12: FitEllipse on fewer than 5 points returns an EllipseShape with
\* valid = false: the call is at its return at once, with EllipseShape() and
\* nothing computed
C12_TooFewForEllipse ==
    (stage # "idle" /\ Len(sample) < 5) =>
        /\ EllipseReturned
        /\ ~shape.valid
        /\ shape = EllipseShapeDefault
        /\ ell = NoEllipseLocals

C12_Witness ==
    /\ EllipseReturned
    /\ Len(sample) = 4
    /\ ~shape.valid

\* C13: FitEllipse on 5 or more exactly collinear points returns an
\* EllipseShape with valid = false
C13_CollinearEllipseInvalid ==
    (EllipseReturned /\ Len(sample) >= 5 /\ Collinear(sample)) => ~shape.valid

\* C14: every EllipseShape returned with valid = true has
\* 10000 >= a >= b > 0 (no NaN among a, b and angle); every other return is
\* EllipseShape(), with valid = false; the valid returns are those of the
\* last statement
C14_ReturnedEllipse ==
    EllipseReturned =>
        /\ shape.valid =>
              /\ ~IsNaN(shape.a) /\ ~IsNaN(shape.b) /\ ~IsNaN(shape.angle)
              /\ FLe(shape.a, AxisMax)
              /\ FGe(shape.a, shape.b)
              /\ FGt(shape.b, Zero(0))
        /\ ~shape.valid => shape = EllipseShapeDefault
        /\ shape.valid <=> (~tooFewForEllipse(sample) /\ ell.rejected = "none")

C14_Witness ==
    /\ EllipseReturned
    /\ shape.valid
    /\ FGt(shape.a, shape.b)
    /\ FGt(shape.b, Zero(0))

\* The known ellipses of the samples: centre (cx, cy), squares A2 >= B2 of
\* the semi-axes, the major axis along the direction (ux, uy) at the angle
\* phi; unit divides A2 and B2.  ArcSample lies on the circle of CircleSample.
QuarterPi == FLit(0, -53, 52707178, 71576856)

KnownEllipses ==
    {[points |-> CircleSample, cx |-> 300, cy |-> 300, A2 |-> 40000, B2 |-> 40000,
      unit |-> 40000, ux |-> 1, uy |-> 0, phi |-> Zero(0)],
     [points |-> ArcSample, cx |-> 300, cy |-> 300, A2 |-> 40000, B2 |-> 40000,
      unit |-> 40000, ux |-> 1, uy |-> 0, phi |-> Zero(0)],
     [points |-> FlatSample, cx |-> 300, cy |-> 300, A2 |-> 40000, B2 |-> 10000,
      unit |-> 10000, ux |-> 1, uy |-> 0, phi |-> Zero(0)],
     [points |-> UprightSample, cx |-> 300, cy |-> 300, A2 |-> 40000, B2 |-> 10000,
      unit |-> 10000, ux |-> 0, uy |-> 1, phi |-> HalfPi],
     [points |-> TiltedSample, cx |-> 300, cy |-> 300, A2 |-> 80000, B2 |-> 20000,
      unit |-> 20000, ux |-> 1, uy |-> 1, phi |-> QuarterPi]}

\* the coordinates of the i-th point of k along and across the major axis,
\* times the length of (ux, uy)
Along(k, i) == k.ux * (k.points[i].x - k.cx) + k.uy * (k.points[i].y - k.cy)
Across(k, i) == k.ux * (k.points[i].y - k.cy) - k.uy * (k.points[i].x - k.cx)

\* every point of k lies exactly on the ellipse: u^2 / A2 + v^2 / B2 = 1
OnEllipse(k) ==
    \A i \in 1 .. Len(k.points) :
        (k.B2 \div k.unit) * Along(k, i) * Along(k, i)
          + (k.A2 \div k.unit) * Across(k, i) * Across(k, i)
            = (k.A2 \div k.unit) * k.B2 * (k.ux * k.ux + k.uy * k.uy)

RECURSIVE Total(_)
Total(s) == IF s = <<>> THEN 0 ELSE Head(s) + Total(Tail(s))

\* the mean of the points of k is the centre of the ellipse, and their second
\* moments have the axes of the ellipse as principal axes, the greater along
\* the major axis
Balanced(k) ==
    /\ Total([i \in 1 .. Len(k.points) |-> k.points[i].x - k.cx]) = 0
    /\ Total([i \in 1 .. Len(k.points) |-> k.points[i].y - k.cy]) = 0
    /\ Total([i \in 1 .. Len(k.points) |-> Along(k, i) * Across(k, i)]) = 0
    /\ Total([i \in 1 .. Len(k.points) |-> Along(k, i) * Along(k, i)])
         >= Total([i \in 1 .. Len(k.points) |-> Across(k, i) * Across(k, i)])

\* |u - v| <= tol
Within(u, v, tol) == FLe(FAbs(FSub(u, v)), tol)

\* u and v differ by at most tol, or by pi more or less
WithinModPi(u, v, tol) ==
    \/ Within(u, v, tol)
    \/ Within(FAdd(u, Pi), v, tol)
    \/ Within(FSub(u, Pi), v, tol)

MomentTolerance == FLit(0, -82, 36028797, 2545301)       \* 1e-9

----------------------------------------------------------------------------
(* Claims about FitCircle and FitEllipse together *)

----------------------------------------------------------------------------
(* Claims about the Newton loop, continued *)

\* f at the x of the pass about to be made: A0 + x (A1 + x (A2 + 4 x x))
PolynomialAtRoot ==
    FAdd(fit.A0,
         FMul(fit.xnew,
              FAdd(fit.A1,
                   FMul(fit.xnew,
                        FAdd(fit.A2, FMul(FMul(FInt(4), fit.xnew), fit.xnew))))))

\* C21: a pass of the Newton loop that finds |f(x)| greater than |f| of the
\* pass before (1e20 before the first) leaves the loop at once with x = 0,
\* without a Newton update and without counting the pass
C21_IncreaseStops ==
    [][(at = "newton" /\ FGt(FAbs(PolynomialAtRoot), FAbs(fit.ynew))) =>
          /\ at' = "det"
          /\ fit'.exit = "increase"
          /\ fit'.xnew = Zero(0)
          /\ fit'.iter = fit.iter
          /\ fit'.ynew = PolynomialAtRoot]_vars

C21_Witness ==
    /\ at = "det"
    /\ fit.exit = "increase"
    /\ fit.xnew = Zero(0)
    /\ fit.iter = 0
    /\ FGt(FAbs(fit.ynew), ynewStart)

----------------------------------------------------------------------------
(* Claims about the guards of FitEllipse *)

----------------------------------------------------------------------------
(* Claims about the Problem1 grid, continued *)

\* the first pair of loops of rasterizeOptimized visits no point
EmptyBox(b) == b.minRow > b.maxRow \/ b.minCol > b.maxCol

\* C23: rasterizeOptimized of a valid circle, centres far outside the grid
\* included, calls getPointMutable(row, col) only with 0 <= row < size and
\* 0 <= col < size; when the clamped box is empty no point is evaluated and
\* every flag is cleared
C23_AccessesInRange ==
    (Called("rasterizeOptimized") /\ isValid(call.circle)) =>
        LET b == boundingBox(call.circle)
        IN  /\ \A row \in b.minRow .. b.maxRow, col \in b.minCol .. b.maxCol :
                  /\ 0 <= row /\ row < GridN
                  /\ 0 <= col /\ col < GridN
                  /\ Index(row, col) \in Indices
            /\ EmptyBox(b) =>
                  /\ inBox(call.circle) = {}
                  /\ \A k \in Indices : ~highlighted[k]

\* a circle far to the left of the grid: the box is empty and the flags
\* found are cleared
C23_Witness ==
    /\ Called("rasterizeOptimized") /\ isValid(call.circle)
    /\ call.circle.cx = -Far * Den
    /\ EmptyBox(boundingBox(call.circle))
    /\ \E k \in Indices : before[k]
    /\ \A k \in Indices : ~highlighted[k]

\* a circle made of a distance is valid: its radius, the root of radiusSq,
\* is greater than 0
ValidBound(c) == c.radiusSq > 0

\* C26 as stated: whenever calculateBoundingCircles returns true both circles
\* are valid
C26_BoundingCirclesValid ==
    (Called("calculateBoundingCircles") /\ ret) =>
        /\ ValidBound(innerCircle)
        /\ ValidBound(outerCircle)

\* C26, amended: when calculateBoundingCircles returns true the radii are not
\* negative; innerCircle is valid unless the center is a highlighted point,
\* outerCircle unless no other point than the center is highlighted
C26_BoundingCirclesRadii ==
    (Called("calculateBoundingCircles") /\ ret) =>
        LET D == HighlightedDistances(before, call.cx, call.cy)
        IN  /\ innerCircle.radiusSq >= 0
            /\ innerCircle.radiusSq <= outerCircle.radiusSq
            /\ ValidBound(innerCircle) <=> 0 \notin D
            /\ ValidBound(outerCircle) <=> D # {0}

C26_Witness ==
    /\ Called("calculateBoundingCircles") /\ ret
    /\ 0 \in HighlightedDistances(before, call.cx, call.cy)
    /\ ~ValidBound(innerCircle)
    /\ ValidBound(outerCircle)

----------------------------------------------------------------------------
(* Claims about the Problem2 Grid *)

\* the pixel lies in the grid area
InArea(x, y) ==
    /\ 0 <= x /\ x < GRID_SIZE * CELL_SIZE
    /\ 0 <= y /\ y < GRID_SIZE * CELL_SIZE

\* the cell in row i, column j contains the pixel
Contains(i, j, x, y) ==
    /\ j * CELL_SIZE <= x /\ x < (j + 1) * CELL_SIZE
    /\ i * CELL_SIZE <= y /\ y < (i + 1) * CELL_SIZE

\* C28: PixelToGrid(x, y, i, j) returns true exactly when 0 <= x <
\* GRID_SIZE * CELL_SIZE and 0 <= y < GRID_SIZE * CELL_SIZE, negative x and
\* y included, and then (i, j) is the cell that contains the pixel; the
\* pixel centre of an in-range cell is taken back to that cell.
C28_PixelToGridInArea ==
    /\ gridCall.op = "PixelToGrid" =>
          /\ gridCall.ret <=> InArea(gridCall.x, gridCall.y)
          /\ gridCall.ret =>
                Contains(gridCall.i, gridCall.j, gridCall.x, gridCall.y)
    /\ \A k \in 1 .. Len(Cells) :
          LET p == GetPixelCoords(Cells[k][1], Cells[k][2])
          IN  /\ PixelToGrid(p.x, p.y).ret
              /\ <<PixelToGrid(p.x, p.y).i, PixelToGrid(p.x, p.y).j>> = Cells[k]

\* the indices name a cell of the grid
InRange(i, j) == 0 <= i /\ i < GRID_SIZE /\ 0 <= j /\ j < GRID_SIZE

\* C29: TogglePoint(i, j) with in-range indices flips the selected flag of
\* that cell and leaves every other cell as it was, so toggling one cell twice
\* restores the grid; with an index out of range it changes nothing; after
\* Clear no cell is selected and GetSelectedPoints is empty.
C29_ToggleAndClear ==
    /\ gridCall.op = "TogglePoint" =>
          IF InRange(gridCall.i, gridCall.j)
          THEN /\ <<gridCall.i, gridCall.j>> \in selected
                     <=> <<gridCall.i, gridCall.j>> \notin gridCall.before
               /\ selected \ {<<gridCall.i, gridCall.j>>}
                     = gridCall.before \ {<<gridCall.i, gridCall.j>>}
          ELSE selected = gridCall.before
    /\ \A c \in ToggleInputs :
          TogglePoint(TogglePoint(selected, c[1], c[2]), c[1], c[2]) = selected
    /\ gridCall.op = "Clear" =>
          /\ selected = {}
          /\ \A c \in ToggleInputs : ~IsSelected(selected, c[1], c[2])
          /\ selectedPoints(selected) = <<>>

\* a selected cell has been toggled off and other cells stay selected
C29_Witness ==
    /\ gridCall.op = "TogglePoint"
    /\ <<gridCall.i, gridCall.j>> \in gridCall.before
    /\ Cardinality(gridCall.before) >= 3
    /\ selected # {}

----------------------------------------------------------------------------
(* Claims about the Applications of Problem2 and extracredit *)

\* C27: in every state of the Problem2 and extracredit Applications the shape is
\* shown (showCircle, showEllipse) only if it is valid (radius > 0, valid) and
\* is what the fit returned for the points selected now; a handler that
\* toggled a point, and Clear, leave it hidden.
C27_ShownIsCurrentFit ==
    /\ showCircle =>
          /\ FGt(bestFitCircle.radius, Zero(0))
          /\ fitted # NoCall
          /\ fitted.points = selectedPoints(selected)
          /\ fitted.returned = bestFitCircle
    /\ showEllipse =>
          /\ bestFitEllipse.valid
          /\ fitted # NoCall
          /\ fitted.points = selectedPoints(selected)
          /\ fitted.returned = bestFitEllipse
    /\ event # NoCall =>
          /\ (event.op = "OnMouseDown" /\ event.hit) => ~showCircle /\ ~showEllipse
          /\ event.op = "Clear" => ~showCircle /\ ~showEllipse /\ selected = {}

\* GenerateCircle or GenerateEllipse has returned and the shape is shown
C27_Witness ==
    /\ showCircle \/ showEllipse
    /\ event.op \in {"GenerateCircle", "GenerateEllipse"}
    /\ Idle

----------------------------------------------------------------------------
(* Claims about the points of the Problem1 Grid *)

\* point (row, col) has gridPosition (col, row) and canvasPosition
\* gridToCanvas(gridPosition), and the transform is the constructed one
GridAsConstructed ==
    /\ theGrid.size = GridN
    /\ theGrid.transform =
           CoordinateTransform(GridN, WINDOW_WIDTH, WINDOW_HEIGHT, GRID_PADDING)
    /\ Len(theGrid.points) = GridN * GridN
    /\ \A row \in 0 .. GridN - 1 : \A col \in 0 .. GridN - 1 :
          \E p \in {theGrid.points[row * GridN + col + 1]} :
             /\ p.gridPosition = Point2D(FInt(col), FInt(row))
             /\ p.canvasPosition = gridToCanvas(theGrid.transform, p.gridPosition)

\* C22: the constructed Grid has, at point (row, col), gridPosition (col, row)
\* and canvasPosition = gridToCanvas(gridPosition), and no step of rasterize,
\* rasterizeOptimized, resetHighlights or calculateBoundingCircles changes the
\* positions or the transform, so that this holds in every state; only the
\* highlighted flags change.
C22_PositionsFixed ==
    /\ GridAsConstructed
    /\ [][theGrid' = theGrid]_vars

\* rasterizeOptimized has changed flags of the constructed grid
C22_Witness ==
    /\ pc = "called"
    /\ call.op = "rasterizeOptimized"
    /\ highlighted # before
    /\ theGrid.points[GridN + 2].gridPosition = Point2D(FInt(1), FInt(1))

----------------------------------------------------------------------------
(* Claims about the Application of Problem1 *)

\* what the handlers of the Application write
DragState ==
    <<lit, isDragging, dragStartCanvas, dragCurrentCanvas, hasRasterizedCircle,
      userCircleGrid, innerBoundGrid, outerBoundGrid>>

\* some point is highlighted exactly when hasRasterizedCircle is true
RasterizedIffHighlighted == hasRasterizedCircle <=> lit # {}

\* C24: in every state of the Problem1 Application, after any sequence of
\* onMouseDown, onMouseMove and onMouseUp, hasRasterizedCircle is true exactly
\* when some grid point is highlighted; onMouseDown leaves no point
\* highlighted and hasRasterizedCircle false; onMouseUp while no drag is under
\* way changes nothing.
C24_RasterizedIffHighlighted ==
    [][/\ RasterizedIffHighlighted
       /\ RasterizedIffHighlighted'
       /\ mouse'.op = "onMouseDown" => lit' = {} /\ ~hasRasterizedCircle'
       /\ (mouse'.op = "onMouseUp" /\ ~isDragging) => UNCHANGED DragState]_vars

\* a drag has ended with points highlighted
C24_Witness ==
    /\ mouse.op = "onMouseUp"
    /\ ~isDragging
    /\ hasRasterizedCircle
    /\ lit # {}

\* C25: whenever hasRasterizedCircle is true, innerBoundGrid and
\* outerBoundGrid have the center of userCircleGrid, and with r its radius
\* r - 0.7071 <= inner.radius <= outer.radius <= r + 0.7071.
C25_BoundsWithinThreshold ==
    hasRasterizedCircle =>
        /\ innerBoundGrid.center = userCircleGrid.center
        /\ outerBoundGrid.center = userCircleGrid.center
        /\ FLe(FSub(userCircleGrid.radius, Threshold64), innerBoundGrid.radius)
        /\ FLe(innerBoundGrid.radius, outerBoundGrid.radius)
        /\ FLe(outerBoundGrid.radius, FAdd(userCircleGrid.radius, Threshold64))

\* the bounds of a ring of more than three points differ and the inner one is
\* a circle
C25_Witness ==
    /\ hasRasterizedCircle
    /\ Cardinality(lit) > 3
    /\ FLt(Zero(0), innerBoundGrid.radius)
    /\ FLt(innerBoundGrid.radius, userCircleGrid.radius)
    /\ FLt(userCircleGrid.radius, outerBoundGrid.radius)

====
